---- MODULE Spec2Model ----
(***************************************************************************)
(* Security middleware of the WhatsApp API handlers: the sliding-window    *)
(* rate limiter, the JWT token service, the webhook HMAC signer and the    *)
(* middleware chain that composes them (api/middleware.go, api/auth.go,    *)
(* the protected and webhook handler files).                               *)
(*                                                                         *)
(* Time is the value of time.Now().Unix(): whole seconds.                  *)
(***************************************************************************)
EXTENDS Integers, Sequences, FiniteSets, TLC

\* ------------------------------------------------------------------ bounds
MaxLimit == 2
MaxWindow == 2
MaxTicks == 3
MaxCalls == 4
MaxReq == 2
MaxHookReq == 2

Limiters == {"global", "auth"}
Identifiers == {"1.2.3.4", "5.6.7.8"}
Workers == {"w1", "w2"}

\* globalRateLimiter = NewRateLimiter(100, time.Hour)
GlobalLimit == 100
GlobalWindow == 3600
\* authRateLimiter = NewRateLimiter(5, time.Minute*15)
AuthLimit == 5
AuthWindow == 900
NoWorker == "none"

VARIABLES
    now,        \* time.Now().Unix()
    ticks,      \* number of clock advances so far
    limit,      \* RateLimiter.limit, per limiter instance
    window,     \* RateLimiter.window in seconds, per limiter instance
    requests,   \* RateLimiter.requests, per limiter instance: identifier -> timestamps
    mutex,      \* RateLimiter.mutex, per limiter instance: the worker holding it
    pc,         \* position of each worker inside Allow
    arg,        \* the limiter and identifier of each worker's current Allow call
    loc,        \* Allow's locals now and validRequests, per worker
    ncalls,     \* number of Allow calls started
    hist,       \* per limiter and identifier, the completed calls [t, ok, serial]
    serial,     \* the limiter maps obtained by running the same calls one at a time
    jwtSecret,  \* the package variable jwtSecret
    mono,       \* number of sub-second clock readings made, as printed by time.Now().String()
    issued,     \* the generateTokens calls made: tokens returned and claims embedded
    verdict,    \* the validateJWTToken call whose result is being handled, if any
    expiredSeen, \* the first token rejected as expired, with the instant of the rejection
    last,       \* the request served last by the protected Handler, and its response
    nreq,       \* number of requests served by the protected Handler
    sending,    \* the calls of ProtectedSendMessage and of the public send functions whose insert is in flight
    mlast,      \* the request served last by MessagesHandler, and its response
    nmsg,       \* number of requests served by MessagesHandler
    webhookEnv, \* the environment variable WHATSAPP_WEBHOOK_SECRET
    sent,       \* the webhook delivery made last: payload and X-Hub-Signature-256
    checked,    \* the verifyWebhookSignature call made last: arguments and result
    webhookURLsEnv, \* the environment variable WHATSAPP_WEBHOOK
    serviceUp,  \* SUPABASE_URL and SUPABASE_ANON_KEY are set: NewWhatsAppService() is not nil
    storage,    \* the rows inserted into chat_storage
    tasks,      \* the fan-out goroutines started by processIncomingMessage
    inbound,    \* the ReceiveWebhook calls between their insert into chat_storage and their response
    hlast,      \* the request served last by the webhook Handler, and its response
    nhook,      \* number of requests served by the webhook Handler
    basicAuthEnv, \* the environment variable APP_BASIC_AUTH
    aresp,      \* the request served last by the auth Handler, and its response
    refreshed,  \* the tokens that RefreshToken has accepted so far
    nauth,      \* number of requests served by the auth Handler
    lcall       \* the whole Allow call made last: its arguments, result, and the maps before and after

rlvars == <<limit, window, requests, mutex, pc, arg, loc, ncalls, hist, serial>>
tokvars == <<jwtSecret, mono, issued, verdict, expiredSeen>>
pipevars == <<last, nreq, sending, mlast, nmsg>>
hookvars == <<webhookEnv, sent, checked>>
dispvars == <<webhookURLsEnv, serviceUp, storage, tasks, inbound, hlast, nhook>>
authvars == <<basicAuthEnv, aresp, refreshed, nauth>>
limvars == <<lcall>>
restvars == <<dispvars, authvars, limvars>>
vars == <<now, ticks, rlvars, tokvars, pipevars, hookvars, restvars>>
NotRL == <<tokvars, pipevars, hookvars, restvars>>
NotTok == <<rlvars, pipevars, hookvars, restvars>>

NoRequest == [done |-> FALSE]

PipeIdle ==
    /\ last = NoRequest
    /\ nreq = 0
    /\ sending = <<>>
    /\ mlast = NoRequest
    /\ nmsg = 0

NoDelivery == [done |-> FALSE]
NoCheck == [done |-> FALSE]

HookIdle ==
    /\ sent = NoDelivery
    /\ checked = NoCheck

DispIdle ==
    /\ webhookURLsEnv = <<>>
    /\ serviceUp = TRUE
    /\ storage = <<>>
    /\ tasks = <<>>
    /\ inbound = <<>>
    /\ hlast = NoRequest
    /\ nhook = 0

AuthIdle ==
    /\ basicAuthEnv = <<>>
    /\ aresp = NoRequest
    /\ refreshed = {}
    /\ nauth = 0

\* ------------------------------------------------------------ RateLimiter
EmptyMap == [x \in {} |-> <<>>]

\* requests[identifier], absent => the empty list made at middleware.go:62-64
Entry(m, id) == IF id \in DOMAIN m THEN m[id] ELSE <<>>

PutDropsOthers(m, id, v) == [x \in {id} |-> v]
Put(m, id, v) == [x \in (DOMAIN m) \cup {id} |-> IF x = id THEN v ELSE m[x]]

WindowStart(t, w) == t - w

ValidRequestsKeepAll(reqs, ws) == reqs
ValidRequestsInclusive(reqs, ws) == SelectSeq(reqs, LAMBDA r : r >= ws)
ValidRequests(reqs, ws) == SelectSeq(reqs, LAMBDA r : r > ws)

AllowOutcomeNeverForgets(reqs, t, lim, w) ==
    IF Len(reqs) >= lim
    THEN [ok |-> FALSE, stored |-> reqs]
    ELSE [ok |-> TRUE, stored |-> Append(reqs, t)]
AllowOutcomeCountsRejected(reqs, t, lim, w) ==
    LET valid == ValidRequests(reqs, WindowStart(t, w))
    IN  [ok |-> ~(Len(valid) >= lim), stored |-> Append(valid, t)]
\* the decision and the list stored by one whole Allow call
AllowOutcome(reqs, t, lim, w) ==
    LET valid == ValidRequests(reqs, WindowStart(t, w))
    IN  IF Len(valid) >= lim
        THEN [ok |-> FALSE, stored |-> valid]
        ELSE [ok |-> TRUE, stored |-> Append(valid, t)]

\* ----------------------------------------------------------- TokenService
AccessTTL == 3600
RefreshTTL == 604800
MaxIssued == 1

Usernames == {"admin", "alice"}
JWTSecretEnv == {"", "jwt-secret-1"}
AttackerKey == "not-the-secret"
HMACMethods == {"HS256", "HS384", "HS512"}

getJWTSecret(env) ==
    IF env = "" THEN "whatsapp-api-secret-key-change-in-production" ELSE env

getUserRoleFold(username) ==
    IF username \in {"admin", "Admin"} THEN "admin" ELSE "user"
getUserRole(username) == IF username = "admin" THEN "admin" ELSE "user"

\* base64(sha256(username + time.Now().String()))[:16]; the digest is kept
\* symbolic: equal exactly when the hashed inputs are equal
generateUserID(username, stamp) == <<"sha256", username, stamp>>

\* the MAC of msg under key with the hash of alg, symbolic in the same way
HMAC(alg, key, msg) == [alg |-> alg, key |-> key, msg |-> msg]

\* the JSON object of a Claims value, by the json tags of Claims and of
\* jwt.RegisteredClaims (NumericDate is written as whole seconds)
MarshalClaims(c) ==
    [user_id |-> c.UserID, username |-> c.Username, role |-> c.Role,
     iss |-> c.Issuer, exp |-> c.ExpiresAt, nbf |-> c.NotBefore, iat |-> c.IssuedAt]

UnmarshalClaimsSwapped(j) ==
    [UserID |-> j.user_id, Username |-> j.username, Role |-> j.role,
     Issuer |-> j.iss, ExpiresAt |-> j.iat, NotBefore |-> j.nbf, IssuedAt |-> j.exp]
UnmarshalClaims(j) ==
    [UserID |-> j.user_id, Username |-> j.username, Role |-> j.role,
     Issuer |-> j.iss, ExpiresAt |-> j.exp, NotBefore |-> j.nbf, IssuedAt |-> j.iat]

NoClaims ==
    [UserID |-> <<>>, Username |-> "", Role |-> "",
     Issuer |-> "", ExpiresAt |-> 0, NotBefore |-> 0, IssuedAt |-> 0]

JWTHeader(alg) == [alg |-> alg, typ |-> "JWT"]

\* jwt.NewWithClaims(method, claims).SignedString(key): the three segments
\* header, claims and signature over the first two
SignedString(alg, claims, key) ==
    LET h == JWTHeader(alg)
        p == MarshalClaims(claims)
    IN  <<h, p, HMAC(alg, key, <<h, p>>)>>

\* the Claims value built by generateTokens for one token
NewClaims(username, stamp, t, ttl) ==
    [UserID |-> generateUserID(username, stamp), Username |-> username,
     Role |-> getUserRole(username), Issuer |-> "whatsapp-api",
     ExpiresAt |-> t + ttl, NotBefore |-> t, IssuedAt |-> t]

\* generateTokens at second t; stampA and stampR are the two readings of
\* time.Now().String() made by the two generateUserID calls
generateTokens(username, t, stampA, stampR, key) ==
    LET claims == NewClaims(username, stampA, t, AccessTTL)
        refreshClaims == NewClaims(username, stampR, t, RefreshTTL)
    IN  [username |-> username,
         accessToken |-> SignedString("HS256", claims, key),
         refreshToken |-> SignedString("HS256", refreshClaims, key),
         expiresIn |-> AccessTTL,
         claims |-> claims,
         refreshClaims |-> refreshClaims]

Reject(e) == [ok |-> FALSE, err |-> e, claims |-> NoClaims]

\* the key function of validateJWTToken: only HMAC methods get the secret
KeyFuncAccepts(h) == h.alg \in HMACMethods

VerifySignatureSkipped(tok, key) == Len(tok) = 3
VerifySignature(tok, key) == tok[3] = HMAC(tok[1].alg, key, <<tok[1], tok[2]>>)

\* jwt.ParseWithClaims with the key function above, then token.Valid:
\* segment count, key function, signature, then exp and nbf against t
validateJWTToken(tok, t, key) ==
    IF Len(tok) # 3 THEN Reject("malformed")
    ELSE IF ~KeyFuncAccepts(tok[1]) THEN Reject("unverifiable")
    ELSE IF ~VerifySignature(tok, key) THEN Reject("signature")
    ELSE IF ~(t < tok[2].exp) THEN Reject("expired")
    ELSE IF t < tok[2].nbf THEN Reject("not valid yet")
    ELSE [ok |-> TRUE, err |-> "", claims |-> UnmarshalClaims(tok[2])]

validateRefreshTokenSingleUse(tok, t, key) ==
    IF tok \in refreshed THEN Reject("used") ELSE validateJWTToken(tok, t, key)
validateRefreshToken(tok, t, key) == validateJWTToken(tok, t, key)

\* ---- tokens a caller can present
IssuedTokens == {i.accessToken : i \in issued} \cup {i.refreshToken : i \in issued}

\* an issued token whose claims segment was altered after signing
Altered(tok) ==
    {<<tok[1], p, tok[3]>> :
        p \in {[tok[2] EXCEPT !.role = "admin"],
               [tok[2] EXCEPT !.username = "admin"],
               [tok[2] EXCEPT !.exp = @ + RefreshTTL]}} \ {tok}

\* tokens made without the service: signed with another key, unsigned with
\* alg none, or signed by a holder of the secret with claims of its choice
SelfMade(tok, key) ==
    LET admin == [tok[2] EXCEPT !.role = "admin"]
        later == [tok[2] EXCEPT !.nbf = @ + AccessTTL, !.exp = @ + AccessTTL]
        hn == JWTHeader("none")
        h5 == JWTHeader("HS512")
    IN  {<<tok[1], admin, HMAC("HS256", AttackerKey, <<tok[1], admin>>)>>,
         <<hn, admin, HMAC("none", "", <<>>)>>,
         <<h5, admin, HMAC("HS512", key, <<h5, admin>>)>>,
         <<tok[1], later, HMAC("HS256", key, <<tok[1], later>>)>>}

Malformed == {<<>>, <<JWTHeader("HS256")>>}

Presentable ==
    IssuedTokens \cup Malformed
        \cup UNION {Altered(t) : t \in IssuedTokens}
        \cup UNION {SelfMade(t, jwtSecret) : t \in IssuedTokens}

NoVerdict == [done |-> FALSE, tok |-> <<>>, at |-> 0, res |-> Reject("")]

TokIdle ==
    /\ mono = 0
    /\ issued = {}
    /\ verdict = NoVerdict
    /\ expiredSeen = {}

\* generateTokens(username), as called by Login and RefreshToken
Issue(username) ==
    /\ Cardinality(issued) < MaxIssued
    /\ issued' = issued \cup
          {generateTokens(username, now, <<now, mono>>, <<now, mono + 1>>, jwtSecret)}
    /\ mono' = mono + 2
    /\ verdict' = NoVerdict
    /\ last' = NoRequest
    /\ UNCHANGED <<now, ticks, jwtSecret, expiredSeen, nreq, sending, mlast, nmsg>>
    /\ UNCHANGED <<rlvars, hookvars, restvars>>

\* validateJWTToken(tokenString), as called by the guards and handlers
Validate(tok) ==
    LET res == validateJWTToken(tok, now, jwtSecret)
    IN  /\ ~verdict.done
        /\ verdict' = [done |-> TRUE, tok |-> tok, at |-> now, res |-> res]
        /\ expiredSeen' =
              IF res.err = "expired" /\ expiredSeen = {}
              THEN {[tok |-> tok, at |-> now]}
              ELSE expiredSeen
        /\ UNCHANGED <<now, ticks, jwtSecret, mono, issued>>
        /\ UNCHANGED NotTok

\* --------------------------------------------------------------- Pipeline
Methods == {"GET", "POST", "OPTIONS"}
Endpoints == {"profile", "dashboard", "send", "history", "other"}

\* the Authorization header: the text before the token and the token;
\* both empty is the absent header
NoHeader == [scheme |-> "", tok |-> <<>>]
Header(scheme, tok) == [scheme |-> scheme, tok |-> tok]

\* strings.TrimPrefix(authHeader, "Bearer ")
TrimPrefixBearer(h) == IF h.scheme = "Bearer " THEN Header("", h.tok) ELSE h

\* where a request comes from: the X-Forwarded-For list, X-Real-IP and
\* RemoteAddr as <<ip, port>>
Source(xff, xri, ip) == [xff |-> xff, xri |-> xri, remote |-> <<ip, 40000>>]

getClientIP(src) ==
    IF src.xff # <<>> THEN src.xff[1]
    ELSE IF src.xri # "" THEN src.xri
    ELSE src.remote[1]

NoUser == [ID |-> <<>>, Username |-> "", Role |-> ""]
EmptyCtx == [hasClaims |-> FALSE, claims |-> NoClaims, user |-> NoUser]

\* what one stage did: whether it ran, the status it wrote (if any), the
\* error text of its body, how often it invoked the next stage, and the
\* request context it passed on
Skipped == [ran |-> FALSE, wrote |-> <<>>, body |-> "", next |-> 0, ctx |-> EmptyCtx]
Finalize(status, body) ==
    [ran |-> TRUE, wrote |-> <<status>>, body |-> body, next |-> 0, ctx |-> EmptyCtx]
CallNext(ctx) == [ran |-> TRUE, wrote |-> <<>>, body |-> "", next |-> 1, ctx |-> ctx]

SecurityMiddlewareNoReturn(method) ==
    IF method = "OPTIONS"
    THEN [ran |-> TRUE, wrote |-> <<200>>, body |-> "", next |-> 1, ctx |-> EmptyCtx]
    ELSE CallNext(EmptyCtx)
SecurityMiddleware(method) ==
    IF method = "OPTIONS" THEN Finalize(200, "") ELSE CallNext(EmptyCtx)

\* RateLimitMiddleware(limiter): asks the limiter under getClientIP of the
\* request; 429 when it refuses, else the next stage. key is the identifier
\* it asked under and stored the limiter's map after the call
RateLimitMiddleware(src, t, reqs, lim, win) ==
    LET clientIP == getClientIP(src)
        al == AllowOutcome(Entry(reqs, clientIP), t, lim, win)
    IN  [guard |-> IF ~al.ok
                   THEN Finalize(429, "Rate limit exceeded")
                   ELSE CallNext(EmptyCtx),
         key |-> clientIP,
         stored |-> Put(reqs, clientIP, al.stored)]

AuthMiddlewareAnyScheme(authHeader, t, key) ==
    LET v == validateJWTToken(authHeader.tok, t, key)
    IN  IF ~v.ok
        THEN Finalize(401, "Invalid or expired token")
        ELSE CallNext([hasClaims |-> TRUE,
                       claims |-> v.claims,
                       user |-> [ID |-> v.claims.UserID,
                                 Username |-> v.claims.Username,
                                 Role |-> v.claims.Role]])
AuthMiddlewareAccessOnly(authHeader, t, key) ==
    LET v == validateJWTToken(authHeader.tok, t, key)
    IN  IF authHeader.scheme # "Bearer "
        THEN Finalize(401, "Authorization header required")
        ELSE IF ~v.ok \/ v.claims.ExpiresAt - v.claims.IssuedAt # AccessTTL
        THEN Finalize(401, "Invalid or expired token")
        ELSE CallNext([hasClaims |-> TRUE,
                       claims |-> v.claims,
                       user |-> [ID |-> v.claims.UserID,
                                 Username |-> v.claims.Username,
                                 Role |-> v.claims.Role]])
AuthMiddleware(authHeader, t, key) ==
    IF authHeader = NoHeader
    THEN Finalize(401, "Authorization header required")
    ELSE LET tokenString == TrimPrefixBearer(authHeader)
         IN  IF tokenString = authHeader
             THEN Finalize(401, "Invalid token format. Use 'Bearer <token>'")
             ELSE LET v == validateJWTToken(tokenString.tok, t, key)
                  IN  IF ~v.ok
                      THEN Finalize(401, "Invalid or expired token")
                      ELSE CallNext([hasClaims |-> TRUE,
                                     claims |-> v.claims,
                                     user |-> [ID |-> v.claims.UserID,
                                               Username |-> v.claims.Username,
                                               Role |-> v.claims.Role]])

AdminMiddlewareAnyRole(ctx) ==
    IF ~ctx.hasClaims THEN Finalize(401, "Authentication required") ELSE CallNext(ctx)
AdminMiddleware(ctx) ==
    IF ~ctx.hasClaims THEN Finalize(401, "Authentication required")
    ELSE IF ctx.claims.Role # "admin" THEN Finalize(403, "Admin access required")
    ELSE CallNext(ctx)

\* generateMessageID(): "msg_" and the time of the call
generateMessageID(t) == <<"msg_", t>>

\* the business handlers of the protected Handler: method check, then the
\* user from the context, then the work. inputOK: the body of a send request
\* decodes, the query of a history request succeeds; complete: the decoded
\* body has a phone and a message; up: NewWhatsAppService() is not nil
HandlerName(endpoint) ==
    CASE endpoint = "profile" -> "Profile"
      [] endpoint = "dashboard" -> "AdminDashboard"
      [] endpoint = "send" -> "ProtectedSendMessage"
      [] endpoint = "history" -> "GetMessageHistory"
      [] OTHER -> ""

HandlerMethod(endpoint) == IF endpoint = "send" THEN "POST" ELSE "GET"

BusinessHandler(endpoint, method, ctx, inputOK, complete, up) ==
    IF method # HandlerMethod(endpoint) THEN Finalize(405, "Method not allowed")
    ELSE IF ctx.user = NoUser \/ (endpoint = "profile" /\ ~ctx.hasClaims)
         THEN Finalize(401, "Authentication required")
    ELSE IF endpoint = "send" /\ ~inputOK THEN Finalize(400, "Invalid JSON")
    ELSE IF endpoint = "send" /\ ~complete
         THEN Finalize(400, "Phone and message are required")
    ELSE IF endpoint = "history" /\ ~up THEN Finalize(500, "Service unavailable")
    ELSE IF endpoint = "history" /\ ~inputOK
         THEN Finalize(500, "Failed to fetch messages")
    ELSE Finalize(200, "")

\* the row ProtectedSendMessage inserts into chat_storage before it answers
\* 200: none when no store is configured
SentMessage(ctx, up, t) ==
    IF up
    THEN <<[jid |-> "phone", message_id |-> generateMessageID(t),
            message_data |-> [type |-> "text", content |-> "message", sent |-> TRUE,
                              sent_by |-> ctx.user.Username, user_id |-> ctx.user.ID]]>>
    ELSE <<>>

\* ---- the public send functions behind MessagesHandler

\* the values of the query parameter "type" that MessagesHandler routes
MessageTypes == {"text", "image", "audio", "file", "contact", "location", "poll"}

\* A request body as the send functions decode it: phone is the field
\* "phone"; main stands for what the function requires besides (message;
\* image or image_url; audio or audio_url; file or file_url; contact_name
\* and contact_phone; latitude and longitude; question and options), empty
\* when a part of it is missing; extra is the caption or the name.
MessageBody(decodes, phone, main, extra) ==
    [decodes |-> decodes, phone |-> phone, main |-> main, extra |-> extra]

\* the row storeMessage inserts into chat_storage
storeMessage(phone, msgType, content, messageID) ==
    [jid |-> phone, message_id |-> messageID,
     message_data |-> [type |-> msgType, content |-> content, sent |-> TRUE]]

\* the error a send function answers with status 400 when a required field
\* is missing, "" when none is
RequiredError(msgType, body) ==
    CASE msgType = "text" ->
            IF body.phone = "" \/ body.main = ""
            THEN "Phone and message are required" ELSE ""
      [] msgType \in {"image", "audio", "file"} ->
            IF body.phone = "" THEN "Phone is required"
            ELSE IF body.main # "" THEN ""
            ELSE IF msgType = "image" THEN "Image or image_url is required"
            ELSE IF msgType = "audio" THEN "Audio or audio_url is required"
            ELSE "File or file_url is required"
      [] msgType = "contact" ->
            IF body.phone = "" \/ body.main = ""
            THEN "Phone, contact_name, and contact_phone are required" ELSE ""
      [] msgType = "location" ->
            IF body.phone = "" \/ body.main = ""
            THEN "Phone, latitude, and longitude are required" ELSE ""
      [] msgType = "poll" ->
            IF body.phone = "" \/ body.main = ""
            THEN "Phone, question, and options are required" ELSE ""

\* the content a send function hands to storeMessage
StoredContent(msgType, body) ==
    CASE msgType \in {"text", "contact", "poll"} -> body.main
      [] msgType \in {"image", "file", "location"} -> body.extra
      [] msgType = "audio" -> "Audio message"

\* the message of the 200 response of a send function
SentText(msgType) ==
    CASE msgType = "text" -> "Text message sent successfully"
      [] msgType = "image" -> "Image sent successfully"
      [] msgType = "audio" -> "Audio sent successfully"
      [] msgType = "file" -> "File sent successfully"
      [] msgType = "contact" -> "Contact sent successfully"
      [] msgType = "location" -> "Location sent successfully"
      [] msgType = "poll" -> "Poll sent successfully"

\* an error response of a send function
SendError(status, error) ==
    [status |-> status, error |-> error, success |-> FALSE, message_id |-> <<>>,
     message |-> "", timestamp |-> 0, insert |-> <<>>]

\* SendText, SendImage, SendAudio, SendFile, SendContact, SendLocation and
\* SendPoll, by message type, at second t: the response written and the row
\* handed to the insert, none when no store is configured
SendMessage(msgType, method, body, up, t) ==
    IF method # "POST" THEN SendError(405, "Method not allowed")
    ELSE IF ~body.decodes THEN SendError(400, "Invalid JSON")
    ELSE IF RequiredError(msgType, body) # "" THEN SendError(400, RequiredError(msgType, body))
    ELSE LET messageID == generateMessageID(t)
         IN  [status |-> 200, error |-> "", success |-> TRUE, message_id |-> messageID,
              message |-> SentText(msgType), timestamp |-> t,
              insert |-> IF up
                         THEN <<storeMessage(body.phone, msgType,
                                             StoredContent(msgType, body), messageID)>>
                         ELSE <<>>]

\* MessagesHandler: the send function of the type, 404 for any other type;
\* no guard runs in front of it
MessagesHandler(req, up, t) ==
    IF req.type \in MessageTypes
    THEN SendMessage(req.type, req.method, req.body, up, t)
    ELSE SendError(404, "Message type not found")

\* GlobalMiddleware(next): SecurityMiddleware, then RateLimitMiddleware of
\* the general limiter, then next
GlobalMiddleware(req, t, reqs, lim, win) ==
    LET sec == SecurityMiddleware(req.method)
        rl == RateLimitMiddleware(req.src, t, reqs, lim, win)
    IN  IF sec.next > 0
        THEN [trace |-> <<"security", "ratelimit">>,
              security |-> sec,
              ratelimit |-> rl.guard,
              key |-> rl.key,
              stored |-> rl.stored]
        ELSE [trace |-> <<"security">>,
              security |-> sec,
              ratelimit |-> Skipped,
              key |-> "",
              stored |-> reqs]

Ran(name, o) == IF o.ran THEN <<name>> ELSE <<>>

\* the status of the response: the first WriteHeader call wins
FirstStatus(writes) == IF writes = <<>> THEN 200 ELSE writes[1]

\* the stages behind the authentication guard of the protected Handler:
\* the endpoint switch, the admin guard of the dashboard, the handlers
Routed(req, ctx, up, t) ==
    LET e == req.endpoint
        admin == IF e = "dashboard" THEN AdminMiddleware(ctx) ELSE Skipped
        reached == IF e = "dashboard" THEN admin.next > 0 ELSE e # "other"
        handler == IF reached
                   THEN BusinessHandler(e, req.method, ctx, req.inputOK, req.complete, up)
                   ELSE Skipped
        notFound == IF e = "other" THEN <<404>> ELSE <<>>
    IN  [admin |-> admin, handler |-> handler, notFound |-> notFound,
         insert |-> IF e = "send" /\ handler.wrote = <<200>>
                    THEN SentMessage(ctx, up, t) ELSE <<>>]

NotRouted == [admin |-> Skipped, handler |-> Skipped, notFound |-> <<>>, insert |-> <<>>]

\* Handler of the protected endpoints: GlobalMiddleware around AuthMiddleware
\* around the endpoint switch
ProtectedHandler(req, t, reqs, lim, win, key, up) ==
    LET g == GlobalMiddleware(req, t, reqs, lim, win)
        auth == IF g.ratelimit.next > 0 THEN AuthMiddleware(req.header, t, key) ELSE Skipped
        r == IF auth.next > 0 THEN Routed(req, auth.ctx, up, t) ELSE NotRouted
    IN  [via |-> "Handler",
         at |-> t,
         method |-> req.method,
         src |-> req.src,
         key |-> g.key,
         header |-> req.header,
         endpoint |-> IF auth.next > 0 THEN req.endpoint ELSE "",
         security |-> g.security,
         ratelimit |-> g.ratelimit,
         auth |-> auth,
         admin |-> r.admin,
         handler |-> r.handler,
         trace |-> g.trace \o Ran("auth", auth) \o Ran("admin", r.admin)
                     \o Ran("handler", r.handler),
         status |-> FirstStatus(g.security.wrote \o g.ratelimit.wrote \o auth.wrote
                                  \o r.admin.wrote \o r.notFound \o r.handler.wrote),
         ran |-> IF r.handler.ran THEN HandlerName(req.endpoint) ELSE "",
         ctx |-> auth.ctx,
         insert |-> r.insert,
         stored |-> g.stored]

\* ChainMiddleware(middlewares...)(final): the first middleware listed is the
\* outermost. The guards chained here are AuthMiddleware and AdminMiddleware,
\* the final handler is AdminDashboard. The result lists, in the order they
\* ran, the stages and what each did.
Guards == {"auth", "admin"}

Guard(name, req, ctx, t, key) ==
    IF name = "auth" THEN AuthMiddleware(req.header, t, key) ELSE AdminMiddleware(ctx)

RECURSIVE RunChain(_, _, _, _, _, _)
RunChain(middlewares, req, ctx, t, key, up) ==
    IF middlewares = <<>>
    THEN <<[name |-> "handler",
            out |-> BusinessHandler("dashboard", req.method, ctx, req.inputOK,
                                    req.complete, up)]>>
    ELSE LET o == Guard(Head(middlewares), req, ctx, t, key)
         IN  <<[name |-> Head(middlewares), out |-> o]>>
                 \o (IF o.next > 0
                     THEN RunChain(Tail(middlewares), req, IF Head(middlewares) = "auth"
                                                           THEN o.ctx ELSE ctx, t, key, up)
                     ELSE <<>>)

StageOf(run, name) ==
    IF \E i \in 1..Len(run) : run[i].name = name
    THEN run[CHOOSE i \in 1..Len(run) : run[i].name = name].out
    ELSE Skipped

RECURSIVE Writes(_)
Writes(run) == IF run = <<>> THEN <<>> ELSE Head(run).out.wrote \o Writes(Tail(run))

ChainMiddleware(middlewares, req, t, reqs, key, up) ==
    LET run == RunChain(middlewares, req, EmptyCtx, t, key, up)
        auth == StageOf(run, "auth")
        handler == StageOf(run, "handler")
    IN  [via |-> "ChainMiddleware",
         at |-> t,
         method |-> req.method,
         src |-> req.src,
         key |-> "",
         header |-> req.header,
         endpoint |-> "dashboard",
         security |-> Skipped,
         ratelimit |-> Skipped,
         auth |-> auth,
         admin |-> StageOf(run, "admin"),
         handler |-> handler,
         trace |-> [i \in 1..Len(run) |-> run[i].name],
         status |-> FirstStatus(Writes(run)),
         ran |-> IF handler.ran THEN HandlerName("dashboard") ELSE "",
         ctx |-> auth.ctx,
         insert |-> <<>>,
         stored |-> reqs]

\* ------------------------------------------------- RateLimiter.Allow steps
MutexLockNoExclusion(l, w) == mutex' = [mutex EXCEPT ![l] = w]
MutexLock(l, w) == mutex[l] = NoWorker /\ mutex' = [mutex EXCEPT ![l] = w]

MutexUnlock(l) == mutex' = [mutex EXCEPT ![l] = NoWorker]

NoArg == [l |-> "global", id |-> "1.2.3.4"]
NoLoc == [now |-> 0, valid |-> <<>>, serial |-> FALSE]

\* a request handler calls limiter.Allow(identifier)
AllowCall(w, l, id) ==
    /\ pc[w] = "idle"
    /\ ncalls < MaxCalls
    /\ pc' = [pc EXCEPT ![w] = "waiting"]
    /\ arg' = [arg EXCEPT ![w] = [l |-> l, id |-> id]]
    /\ ncalls' = ncalls + 1
    /\ UNCHANGED <<now, ticks, limit, window, requests, mutex, loc, hist, serial>>
    /\ UNCHANGED NotRL

\* rl.mutex.Lock() returns: the caller holds the limiter's mutex
AllowLock(w) ==
    /\ pc[w] = "waiting"
    /\ MutexLock(arg[w].l, w)
    /\ pc' = [pc EXCEPT ![w] = "locked"]
    /\ UNCHANGED <<now, ticks, limit, window, requests, arg, loc, ncalls, hist, serial>>
    /\ UNCHANGED NotRL

\* now, windowStart, get-or-create of the entry and the pruning loop
AllowRead(w) ==
    /\ pc[w] = "locked"
    /\ LET l == arg[w].l
           id == arg[w].id
           cur == Entry(requests[l], id)
           one == AllowOutcome(Entry(serial[l], id), now, limit[l], window[l])
       IN  /\ requests' = [requests EXCEPT ![l] = Put(requests[l], id, cur)]
           /\ loc' = [loc EXCEPT ![w] =
                        [now |-> now,
                         valid |-> ValidRequests(cur, WindowStart(now, window[l])),
                         serial |-> one.ok]]
           /\ serial' = [serial EXCEPT ![l] = Put(serial[l], id, one.stored)]
    /\ pc' = [pc EXCEPT ![w] = "pruned"]
    /\ UNCHANGED <<now, ticks, limit, window, mutex, arg, ncalls, hist>>
    /\ UNCHANGED NotRL

\* the limit check, the store of the list and the deferred Unlock
AllowWrite(w) ==
    /\ pc[w] = "pruned"
    /\ LET l == arg[w].l
           id == arg[w].id
           valid == loc[w].valid
           ok == ~(Len(valid) >= limit[l])
           stored == IF ok THEN Append(valid, loc[w].now) ELSE valid
       IN  /\ requests' = [requests EXCEPT ![l] = Put(requests[l], id, stored)]
           /\ hist' = [hist EXCEPT ![l][id] =
                         Append(@, [t |-> loc[w].now, ok |-> ok, serial |-> loc[w].serial])]
           /\ MutexUnlock(l)
    /\ pc' = [pc EXCEPT ![w] = "idle"]
    /\ loc' = [loc EXCEPT ![w] = NoLoc]
    /\ arg' = [arg EXCEPT ![w] = NoArg]
    /\ UNCHANGED <<now, ticks, limit, window, ncalls, serial>>
    /\ UNCHANGED NotRL

\* the clock advances by d seconds
Advance(d) ==
    /\ ticks < MaxTicks
    /\ now' = now + d
    /\ ticks' = ticks + 1
    /\ verdict' = NoVerdict
    /\ last' = NoRequest
    /\ UNCHANGED <<rlvars, jwtSecret, mono, issued, expiredSeen, nreq, sending, mlast, nmsg, hookvars,
                   restvars>>

\* the clock advances by one second
Tick == Advance(1)

NoAllow == [done |-> FALSE]

RLIdle ==
    /\ requests = [l \in Limiters |-> EmptyMap]
    /\ mutex = [l \in Limiters |-> NoWorker]
    /\ pc = [w \in Workers |-> "idle"]
    /\ arg = [w \in Workers |-> NoArg]
    /\ loc = [w \in Workers |-> NoLoc]
    /\ ncalls = 0
    /\ hist = [l \in Limiters |-> [id \in Identifiers |-> <<>>]]
    /\ serial = [l \in Limiters |-> EmptyMap]
    /\ lcall = NoAllow

InitRL ==
    /\ now = 0
    /\ ticks = 0
    /\ TokIdle
    /\ PipeIdle
    /\ webhookEnv = ""
    /\ HookIdle
    /\ DispIdle
    /\ AuthIdle
    /\ jwtSecret = getJWTSecret("")
    /\ \E n \in 1..MaxLimit : limit = [l \in Limiters |-> n]
    /\ \E s \in 1..MaxWindow : window = [l \in Limiters |-> s]
    /\ RLIdle

NextRL ==
    \/ \E w \in Workers, id \in Identifiers : AllowCall(w, "global", id)
    \/ \E w \in Workers : AllowLock(w)
    \/ \E w \in Workers : AllowRead(w)
    \/ \E w \in Workers : AllowWrite(w)
    \/ Tick

SpecRL == InitRL /\ [][NextRL]_vars

\* ---- whole Allow calls, on the general and the authentication limiter
\* rl.Allow(identifier) from Lock to the deferred Unlock, by a caller that
\* finds the mutex free
AllowWhole(l, id) ==
    /\ mutex[l] = NoWorker
    /\ LET o == AllowOutcome(Entry(requests[l], id), now, limit[l], window[l])
           after == [requests EXCEPT ![l] = Put(requests[l], id, o.stored)]
       IN  /\ requests' = after
           /\ lcall' = [done |-> TRUE, l |-> l, id |-> id, t |-> now, ok |-> o.ok,
                        before |-> requests, after |-> after]
    /\ UNCHANGED <<now, ticks, limit, window, mutex, pc, arg, loc, hist, serial>>
    /\ UNCHANGED <<tokvars, pipevars, hookvars, dispvars, authvars>>

\* one of a bounded number of calls
Allow(l, id) ==
    /\ ncalls < MaxCalls
    /\ AllowWhole(l, id)
    /\ ncalls' = ncalls + 1

\* two limiters built by NewRateLimiter: the authentication limiter admits
\* one call per window and has the longest window
InitLim ==
    /\ now = 0
    /\ ticks = 0
    /\ TokIdle
    /\ PipeIdle
    /\ webhookEnv = ""
    /\ HookIdle
    /\ DispIdle
    /\ AuthIdle
    /\ jwtSecret = getJWTSecret("")
    /\ \E n \in 1..MaxLimit : limit = [l \in Limiters |-> IF l = "auth" THEN 1 ELSE n]
    /\ \E s \in 1..MaxWindow : window = [l \in Limiters |-> IF l = "auth" THEN MaxWindow ELSE s]
    /\ RLIdle

NextLim ==
    \/ \E l \in Limiters, id \in Identifiers : Allow(l, id)
    \/ Tick

SpecLim == InitLim /\ [][NextLim]_vars

\* ---- a caller that never stops calling
\* one call of an unbounded series; the calls are not counted
AllowAgain(l, id) ==
    /\ AllowWhole(l, id)
    /\ UNCHANGED ncalls

\* the identifiers whose callers keep calling
Callers == {"1.2.3.4"}

NextLive ==
    \/ \E l \in Limiters, id \in Callers : AllowAgain(l, id)
    \/ Tick

\* time passes, up to the last instant the clock of the model reaches, and
\* every caller calls each limiter again and again
SpecLive ==
    /\ InitLim
    /\ [][NextLive]_vars
    /\ WF_vars(Tick)
    /\ \A l \in Limiters, id \in Callers : WF_vars(AllowAgain(l, id))

ClockSteps == {1, AccessTTL - 1, RefreshTTL - AccessTTL}

InitTok ==
    /\ now = 0
    /\ ticks = 0
    /\ \E env \in JWTSecretEnv : jwtSecret = getJWTSecret(env)
    /\ TokIdle
    /\ PipeIdle
    /\ webhookEnv = ""
    /\ HookIdle
    /\ DispIdle
    /\ AuthIdle
    /\ limit = [l \in Limiters |-> IF l = "global" THEN GlobalLimit ELSE AuthLimit]
    /\ window = [l \in Limiters |-> IF l = "global" THEN GlobalWindow ELSE AuthWindow]
    /\ RLIdle

NextTok ==
    \/ \E u \in Usernames : Issue(u)
    \/ \E tok \in Presentable : Validate(tok)
    \/ \E d \in ClockSteps : Advance(d)

SpecTok == InitTok /\ [][NextTok]_vars

\* ------------------------------------------------- protected Handler steps
ClientSources ==
    {Source(<<>>, "", "1.2.3.4"),
     Source(<<>>, "", "5.6.7.8"),
     Source(<<"5.6.7.8", "1.2.3.4">>, "", "1.2.3.4"),
     Source(<<>>, "5.6.7.8", "1.2.3.4")}

\* the tokens sent to the protected endpoints: the issued ones, their
\* copies with the role claim altered or re-signed with another key, and
\* the empty string
SentTokens ==
    IssuedTokens \cup {<<>>}
        \cup {<<t[1], [t[2] EXCEPT !.role = "admin"], t[3]>> : t \in IssuedTokens}
        \cup {<<t[1], [t[2] EXCEPT !.role = "admin"],
                 HMAC("HS256", AttackerKey, <<t[1], [t[2] EXCEPT !.role = "admin"]>>)>> :
                 t \in IssuedTokens}

Headers ==
    {NoHeader}
        \cup {Header("Bearer ", t) : t \in SentTokens}
        \cup {Header("", t) : t \in IssuedTokens}
        \cup {Header("Basic ", t) : t \in IssuedTokens}

\* the requests sent. From the address 1.2.3.4, with no forwarding header:
\* every method, header and endpoint; inputOK matters to the handlers that
\* decode a body or query the store, complete to the handler that needs a
\* phone and a message. From every source: GET and POST to the profile and
\* the dashboard, with no header and with an access token.
ProtectedRequests ==
    {req \in [method : Methods, src : {Source(<<>>, "", "1.2.3.4")}, header : Headers,
              endpoint : Endpoints, inputOK : BOOLEAN, complete : BOOLEAN] :
        /\ req.inputOK \/ req.endpoint \in {"send", "history"}
        /\ req.complete \/ (req.endpoint = "send" /\ req.inputOK)}
    \cup [method : {"GET", "POST"}, src : ClientSources,
          header : {NoHeader} \cup {Header("Bearer ", i.accessToken) : i \in issued},
          endpoint : {"profile", "dashboard"}, inputOK : {TRUE},
          complete : {TRUE}]

\* one request to the protected Handler: its guards and its handler run, to
\* the response when the run does not get as far as the insert into
\* chat_storage, and to the start of that insert otherwise:
\* ProtectedSendMessage writes its response after the insert has returned
Request(req) ==
    /\ ~last.done
    /\ nreq < MaxReq
    /\ LET r == ProtectedHandler(req, now, requests["global"],
                                 limit["global"], window["global"], jwtSecret,
                                 serviceUp)
       IN  /\ requests' = [requests EXCEPT !["global"] = r.stored]
           /\ IF r.insert = <<>>
              THEN /\ last' = [done |-> TRUE, r |-> r]
                   /\ UNCHANGED sending
              ELSE /\ sending' = Append(sending, [by |-> "ProtectedSendMessage",
                                                  row |-> r.insert[1], r |-> r])
                   /\ UNCHANGED last
    /\ nreq' = nreq + 1
    /\ UNCHANGED <<now, ticks, limit, window, mutex, pc, arg, loc, ncalls, hist, serial>>
    /\ UNCHANGED <<mlast, nmsg, tokvars, hookvars, restvars>>

\* the public requests: a text and an audio message that are sent, and one
\* request for each way of being refused
MessageRequests ==
    {[type |-> ty, method |-> "POST", body |-> MessageBody(TRUE, "phone", "m", "c")] :
        ty \in {"text", "audio", "other"}}
    \cup {[type |-> "text", method |-> "GET", body |-> MessageBody(TRUE, "phone", "m", "c")],
          [type |-> "text", method |-> "POST", body |-> MessageBody(FALSE, "", "", "")],
          [type |-> "text", method |-> "POST", body |-> MessageBody(TRUE, "phone", "", "")],
          [type |-> "image", method |-> "POST", body |-> MessageBody(TRUE, "", "m", "c")],
          [type |-> "image", method |-> "POST", body |-> MessageBody(TRUE, "phone", "", "c")]}

\* one request to MessagesHandler: to its response when the send function
\* does not get as far as storeMessage, and to the start of the insert
\* otherwise. The bound on the requests served holds for MessagesHandler
\* and the webhook Handler together.
MessagesRequest(req) ==
    /\ ~mlast.done
    /\ nhook + nmsg < MaxHookReq
    /\ LET r == MessagesHandler(req, serviceUp, now)
       IN  IF r.insert = <<>>
           THEN /\ mlast' = [done |-> TRUE, req |-> req, at |-> now, r |-> r]
                /\ UNCHANGED sending
           ELSE /\ sending' = Append(sending, [by |-> "storeMessage", row |-> r.insert[1],
                                               r |-> [req |-> req, at |-> now, r |-> r]])
                /\ UNCHANGED mlast
    /\ nmsg' = nmsg + 1
    /\ UNCHANGED <<now, ticks, rlvars, tokvars, last, nreq, hookvars, restvars>>

\* the insert of a call in flight returns, the row stored or not: the
\* result is dropped and the call writes its 200 response
StoreSent(i, storeOK) ==
    /\ i \in 1..Len(sending)
    /\ storage' = IF storeOK THEN Append(storage, sending[i].row) ELSE storage
    /\ sending' = SubSeq(sending, 1, i - 1) \o SubSeq(sending, i + 1, Len(sending))
    /\ IF sending[i].by = "ProtectedSendMessage"
       THEN /\ ~last.done
            /\ last' = [done |-> TRUE, r |-> sending[i].r]
            /\ UNCHANGED mlast
       ELSE /\ ~mlast.done
            /\ mlast' = [done |-> TRUE, req |-> sending[i].r.req, at |-> sending[i].r.at,
                         r |-> sending[i].r.r]
            /\ UNCHANGED last
    /\ UNCHANGED <<now, ticks, rlvars, tokvars, nreq, nmsg, hookvars, authvars, limvars>>
    /\ UNCHANGED <<webhookURLsEnv, serviceUp, tasks, inbound, hlast, nhook>>

\* the response of MessagesHandler has been looked at
MessagesRespond ==
    /\ mlast.done
    /\ mlast' = NoRequest
    /\ UNCHANGED <<now, ticks, rlvars, tokvars, last, nreq, sending, nmsg, hookvars, restvars>>

\* the guards a caller may chain in front of AdminDashboard
AdminChains == {<<"admin">>, <<"auth", "admin">>, <<"admin", "auth">>}

\* one request to AdminDashboard behind a chain of guards, served to its
\* response
ChainRequest(middlewares, req) ==
    /\ ~last.done
    /\ nreq < MaxReq
    /\ req.endpoint = "dashboard"
    /\ last' = [done |-> TRUE,
                r |-> ChainMiddleware(middlewares, req, now, requests["global"], jwtSecret,
                                      serviceUp)]
    /\ nreq' = nreq + 1
    /\ UNCHANGED <<now, ticks, rlvars, tokvars, sending, mlast, nmsg, hookvars, restvars>>

\* the response of the protected Handler has been looked at
Respond ==
    /\ last.done
    /\ last' = NoRequest
    /\ UNCHANGED <<now, ticks, rlvars, tokvars, nreq, sending, mlast, nmsg, hookvars, restvars>>

PipeClockSteps == {AccessTTL}

\* the clock steps taken while the protected Handler is watched
MaxPipeTicks == 1

\* the general limiter after 99 requests from 5.6.7.8 at instant 0
NearLimit == Put(EmptyMap, "5.6.7.8", [i \in 1..(GlobalLimit - 1) |-> 0])

\* An instance of the handlers with the limiters as the program builds
\* them, with or without a store configured. It has served 99 requests
\* from 5.6.7.8 at instant 0 and none from any other address. The callers
\* already hold the token pairs that an instance with the same secret
\* issued to "admin" and to "alice" at instant 0.
InitPipe ==
    /\ now = 0
    /\ ticks = 0
    /\ \E env \in JWTSecretEnv : jwtSecret = getJWTSecret(env)
    /\ issued = {generateTokens("admin", 0, <<0, 0>>, <<0, 1>>, jwtSecret),
                 generateTokens("alice", 0, <<0, 2>>, <<0, 3>>, jwtSecret)}
    /\ mono = 4
    /\ verdict = NoVerdict
    /\ expiredSeen = {}
    /\ PipeIdle
    /\ webhookEnv = ""
    /\ HookIdle
    /\ webhookURLsEnv = <<>>
    /\ serviceUp \in BOOLEAN
    /\ storage = <<>>
    /\ tasks = <<>>
    /\ inbound = <<>>
    /\ hlast = NoRequest
    /\ nhook = 0
    /\ AuthIdle
    /\ limit = [l \in Limiters |-> IF l = "global" THEN GlobalLimit ELSE AuthLimit]
    /\ window = [l \in Limiters |-> IF l = "global" THEN GlobalWindow ELSE AuthWindow]
    /\ requests = [l \in Limiters |-> IF l = "global" THEN NearLimit ELSE EmptyMap]
    /\ mutex = [l \in Limiters |-> NoWorker]
    /\ pc = [w \in Workers |-> "idle"]
    /\ arg = [w \in Workers |-> NoArg]
    /\ loc = [w \in Workers |-> NoLoc]
    /\ ncalls = 0
    /\ hist = [l \in Limiters |-> [id \in Identifiers |-> <<>>]]
    /\ serial = [l \in Limiters |-> EmptyMap]
    /\ lcall = NoAllow

NextPipe ==
    \/ (~last.done /\ nreq < MaxReq) /\ \E req \in ProtectedRequests : Request(req)
    \/ (~last.done /\ nreq < MaxReq) /\
           \E m \in AdminChains, req \in ProtectedRequests : ChainRequest(m, req)
    \/ \E i \in 1..Len(sending), storeOK \in BOOLEAN : StoreSent(i, storeOK)
    \/ Respond
    \/ ticks < MaxPipeTicks /\ \E d \in PipeClockSteps : Advance(d)

SpecPipe == InitPipe /\ [][NextPipe]_vars

\* ----------------------------------------------------------- WebhookSigner
MaxPayload == 2

\* the bytes of a payload: '1' and '2'
Bytes == {49, 50}
Payloads == UNION {[1..n -> Bytes] : n \in 0..MaxPayload}

WebhookSecretEnv == {"", "s3cr3t"}
ForeignKey == "attacker-key"

\* secret := os.Getenv("WHATSAPP_WEBHOOK_SECRET"), with its fallback
webhookSecret(env) == IF env = "" THEN "super-secret-webhook-key" ELSE env

\* A header value is a sequence of pieces of text: a literal, or the hex
\* digits of a MAC in lower or in upper case. The empty sequence is the
\* empty string, which is also what Header.Get returns for an absent header.
Lit(text) == [kind |-> "lit", text |-> text, key |-> "", msg |-> <<>>]
HexDigits(mac, case) == [kind |-> case, text |-> "", key |-> mac.key, msg |-> mac.msg]

\* hex.EncodeToString: lower-case digits
EncodeToString(mac) == <<HexDigits(mac, "hex")>>

\* strings.TrimPrefix(s, prefix) for a literal prefix
TrimPrefix(s, prefix) ==
    IF Len(s) > 0 /\ s[1] = Lit(prefix) THEN Tail(s) ELSE s

hexHMACSHA256KeyOnly(secret, payload) ==
    EncodeToString(HMAC("SHA256", secret, <<>>))
\* mac := hmac.New(sha256.New, secret); mac.Write(payload);
\* hex.EncodeToString(mac.Sum(nil))
hexHMACSHA256(secret, payload) ==
    EncodeToString(HMAC("SHA256", secret, payload))

\* the X-Hub-Signature-256 header set by sendSingleWebhook
signatureHeader(payload, env) ==
    <<Lit("sha256=")>> \o hexHMACSHA256(webhookSecret(env), payload)

verifyWebhookSignatureOpenMode(signature, payload, env) ==
    IF signature = <<>> THEN TRUE
    ELSE TrimPrefix(signature, "sha256=") = hexHMACSHA256(webhookSecret(env), payload)
verifyWebhookSignature(signature, payload, env) ==
    LET secret == webhookSecret(env)
    IN  IF signature = <<>> THEN FALSE
        ELSE LET trimmed == TrimPrefix(signature, "sha256=")
                 expectedSignature == hexHMACSHA256(secret, payload)
             IN  trimmed = expectedSignature

\* the header values a sender can put in front of the receiver: none, the
\* bare prefix, and, for the digest of the payload delivered last under the
\* configured secret, the fallback secret or a foreign key: the digest alone,
\* prefixed, prefixed twice, under another prefix, in upper case, and
\* followed by more text
HeaderForms(mac) ==
    {EncodeToString(mac),
     <<Lit("sha256=")>> \o EncodeToString(mac),
     <<Lit("sha256="), Lit("sha256=")>> \o EncodeToString(mac),
     <<Lit("sha1=")>> \o EncodeToString(mac),
     <<Lit("sha256="), HexDigits(mac, "HEX")>>,
     <<Lit("sha256=")>> \o EncodeToString(mac) \o <<Lit("00")>>}

SignatureHeaders ==
    {<<>>, <<Lit("sha256=")>>}
        \cup (IF sent.done
              THEN {sent.header}
                    \cup UNION {HeaderForms(HMAC("SHA256", k, sent.payload)) :
                                   k \in {webhookSecret(webhookEnv), webhookSecret(""),
                                          ForeignKey}}
              ELSE {})

\* sendSingleWebhook signs the serialized event and sends it
SignWebhook(payload) ==
    /\ sent' = [done |-> TRUE, payload |-> payload,
                header |-> signatureHeader(payload, webhookEnv)]
    /\ checked' = NoCheck
    /\ UNCHANGED <<now, ticks, rlvars, tokvars, pipevars, webhookEnv, restvars>>

\* ReceiveWebhook hands the X-Hub-Signature-256 header and the body read to
\* verifyWebhookSignature
VerifyWebhook(signature, payload) ==
    /\ checked' = [done |-> TRUE, signature |-> signature, payload |-> payload,
                   ok |-> verifyWebhookSignature(signature, payload, webhookEnv)]
    /\ UNCHANGED <<now, ticks, rlvars, tokvars, pipevars, webhookEnv, sent, restvars>>

InitHook ==
    /\ now = 0
    /\ ticks = 0
    /\ limit = [l \in Limiters |-> IF l = "global" THEN GlobalLimit ELSE AuthLimit]
    /\ window = [l \in Limiters |-> IF l = "global" THEN GlobalWindow ELSE AuthWindow]
    /\ RLIdle
    /\ jwtSecret = getJWTSecret("")
    /\ TokIdle
    /\ PipeIdle
    /\ webhookEnv \in WebhookSecretEnv
    /\ HookIdle
    /\ DispIdle
    /\ AuthIdle

NextHook ==
    \/ \E payload \in Payloads : SignWebhook(payload)
    \/ \E signature \in SignatureHeaders, payload \in Payloads :
           VerifyWebhook(signature, payload)

SpecHook == InitHook /\ [][NextHook]_vars

\* -------------------------------------------------------- WebhookDispatcher

\* The value of WHATSAPP_WEBHOOK is a sequence of characters; a character is
\* a comma, a blank, a character url.Parse refuses, or a piece of text: "u1",
\* "u2", "u3" and "u9" stand for an address with its scheme, host and the
\* start of its path, "x" for more of the path.
Comma == ","
Blank == " "
\* the characters url.Parse refuses wherever they stand: a control character
\* (0x7f here, which strings.TrimSpace leaves in place) and a percent sign
\* that no two hex digits follow
Ctl == "DEL"
BadEscape == "%zz"

RECURSIVE Split(_, _)
\* strings.Split(s, sep) for a one-character separator
Split(s, sep) ==
    IF \A i \in 1..Len(s) : s[i] # sep
    THEN <<s>>
    ELSE LET i == CHOOSE k \in 1..Len(s) : s[k] = sep /\ \A j \in 1..(k - 1) : s[j] # sep
         IN  <<SubSeq(s, 1, i - 1)>> \o Split(SubSeq(s, i + 1, Len(s)), sep)

RECURSIVE TrimSpace(_)
\* strings.TrimSpace
TrimSpace(s) ==
    IF s = <<>> THEN s
    ELSE IF Head(s) = Blank THEN TrimSpace(Tail(s))
    ELSE IF s[Len(s)] = Blank THEN TrimSpace(SubSeq(s, 1, Len(s) - 1))
    ELSE s

NonEmpty(s) == s # <<>>

getWebhookURLsKeepBlank(webhookURLs) ==
    IF webhookURLs = <<>> THEN <<>>
    ELSE SelectSeq(Split(webhookURLs, Comma), NonEmpty)
getWebhookURLs(webhookURLs) ==
    IF webhookURLs = <<>> THEN <<>>
    ELSE LET urls == Split(webhookURLs, Comma)
             trimmed == [i \in 1..Len(urls) |-> TrimSpace(urls[i])]
         IN  SelectSeq(trimmed, NonEmpty)

\* json.Marshal(event) by the json tags of WebhookEvent: the names and values
\* in the order of the fields, "to" and "user" left out when empty
Marshal(event) ==
    <<"type", event.Type, "timestamp", event.Timestamp, "from", event.From>>
        \o (IF event.To # "" THEN <<"to", event.To>> ELSE <<>>)
        \o <<"message_id", event.MessageID, "data", event.Data>>
        \o (IF event.User # "" THEN <<"user", event.User>> ELSE <<>>)

\* what a destination does with a request: it answers with a status, or the
\* transport fails (refused, timed out after 10 seconds)
Answer(code) == [kind |-> "status", code |-> code]
TransportError == [kind |-> "error", code |-> 0]
Outcomes == {Answer(200), Answer(300), TransportError}

\* http.NewRequest parses the address with url.Parse: a blank in the path is
\* let through, a control character or a bad percent escape is refused
ParsesAsURL(url) == \A i \in 1..Len(url) : url[i] \notin {Ctl, BadEscape}

NoCall == [made |-> FALSE]

sendSingleWebhookReserialized(url, event, env, t, outcome) ==
    LET payload == Marshal(event)
        signature == hexHMACSHA256(webhookSecret(env), payload)
        call == [made |-> TRUE, url |-> url,
                 body |-> <<"type", event.Type, "timestamp", event.Timestamp,
                            "from", event.From, "to", event.To,
                            "message_id", event.MessageID, "data", event.Data,
                            "user", event.User>>,
                 header |-> <<Lit("sha256=")>> \o signature]
        base == [url |-> url, success |-> FALSE, timestamp |-> t,
                 status_code |-> 0, error |-> <<>>]
    IN  IF ~ParsesAsURL(url)
        THEN [result |-> [base EXCEPT !.error = <<"Failed to create request">>],
              call |-> NoCall]
        ELSE IF outcome.kind = "error"
        THEN [result |-> [base EXCEPT !.error = <<"Request failed">>], call |-> call]
        ELSE LET success == outcome.code >= 200 /\ outcome.code < 300
             IN  [result |-> [base EXCEPT !.status_code = outcome.code,
                                          !.success = success,
                                          !.error = IF success THEN <<>>
                                                    ELSE <<"HTTP", outcome.code>>],
                  call |-> call]
\* sendSingleWebhook(url, event) at second t, the destination behaving as
\* outcome: the result map and the HTTP call made, if any
sendSingleWebhook(url, event, env, t, outcome) ==
    LET payload == Marshal(event)
        signature == hexHMACSHA256(webhookSecret(env), payload)
        call == [made |-> TRUE, url |-> url, body |-> payload,
                 header |-> <<Lit("sha256=")>> \o signature]
        base == [url |-> url, success |-> FALSE, timestamp |-> t,
                 status_code |-> 0, error |-> <<>>]
    IN  IF ~ParsesAsURL(url)
        THEN [result |-> [base EXCEPT !.error = <<"Failed to create request">>],
              call |-> NoCall]
        ELSE IF outcome.kind = "error"
        THEN [result |-> [base EXCEPT !.error = <<"Request failed">>], call |-> call]
        ELSE LET success == outcome.code >= 200 /\ outcome.code < 300
             IN  [result |-> [base EXCEPT !.status_code = outcome.code,
                                          !.success = success,
                                          !.error = IF success THEN <<>>
                                                    ELSE <<"HTTP", outcome.code>>],
                  call |-> call]

RECURSIVE SendUntilFailure(_, _, _, _, _, _)
SendUntilFailure(urls, i, event, env, t, outs) ==
    IF i > Len(urls) THEN <<>>
    ELSE LET one == sendSingleWebhook(urls[i], event, env, t, outs[i])
         IN  <<one>> \o (IF one.result.success
                         THEN SendUntilFailure(urls, i + 1, event, env, t, outs)
                         ELSE <<>>)

NoDestinations == "no webhook URLs configured"

sendToWebhookURLsAbortOnFailure(event, webhookURLs, env, t, outs) ==
    LET urls == getWebhookURLs(webhookURLs)
        sends == SendUntilFailure(urls, 1, event, env, t, outs)
    IN  IF Len(urls) = 0
        THEN [results |-> <<>>, err |-> NoDestinations, calls |-> <<>>]
        ELSE [results |-> [i \in 1..Len(sends) |-> sends[i].result],
              err |-> "",
              calls |-> [i \in 1..Len(sends) |-> sends[i].call]]
\* sendToWebhookURLs(event) at second t; outs[i] is what the i-th
\* destination does. calls[i] is the HTTP call made for the i-th destination.
sendToWebhookURLs(event, webhookURLs, env, t, outs) ==
    LET urls == getWebhookURLs(webhookURLs)
        sends == [i \in 1..Len(urls) |->
                     sendSingleWebhook(urls[i], event, env, t, outs[i])]
    IN  IF Len(urls) = 0
        THEN [results |-> <<>>, err |-> NoDestinations, calls |-> <<>>]
        ELSE [results |-> [i \in 1..Len(urls) |-> sends[i].result],
              err |-> "",
              calls |-> [i \in 1..Len(urls) |-> sends[i].call]]

\* ---- the webhook Handler: receive and send

\* the bodies posted to the receive endpoint: "", "{}", "1" and "{1}"
InboundBodies == {<<>>, <<123, 125>>, <<49>>, <<123, 49, 125>>}

\* json.Unmarshal(body, &message) into an IncomingMessage: of these bodies
\* only "{}" is a JSON object
Unmarshal(body) ==
    IF body = <<123, 125>>
    THEN [ok |-> TRUE,
          message |-> [From |-> "", MessageID |-> "", MessageType |-> "",
                       Content |-> "", IsGroup |-> FALSE]]
    ELSE [ok |-> FALSE,
          message |-> [From |-> "", MessageID |-> "", MessageType |-> "",
                       Content |-> "", IsGroup |-> FALSE]]

NoEvent ==
    [Type |-> "", Timestamp |-> 0, From |-> "", To |-> "", MessageID |-> "",
     Data |-> <<>>, User |-> ""]

\* processIncomingMessage(message) at second t up to the start of the
\* goroutine: the row inserted, the event handed to the goroutine, the
\* event id and the error returned
processIncomingMessage(message, up, storeOK, t) ==
    LET eventID == generateMessageID(t)
        row == [jid |-> message.From, message_id |-> message.MessageID,
                message_data |-> [type |-> message.MessageType,
                                  content |-> message.Content,
                                  is_group |-> message.IsGroup, received |-> TRUE,
                                  event_id |-> eventID]]
        webhookEvent == [Type |-> "message_received", Timestamp |-> t,
                         From |-> message.From, To |-> "",
                         MessageID |-> message.MessageID,
                         Data |-> <<message.MessageType, message.Content,
                                    message.IsGroup, eventID>>,
                         User |-> ""]
    IN  IF ~up
        THEN [err |-> "service unavailable", eventID |-> <<>>, rows |-> <<>>,
              spawned |-> FALSE, event |-> NoEvent]
        ELSE IF ~storeOK
        THEN [err |-> "failed to store message", eventID |-> eventID, rows |-> <<>>,
              spawned |-> FALSE, event |-> NoEvent]
        ELSE [err |-> "", eventID |-> eventID, rows |-> <<row>>,
              spawned |-> TRUE, event |-> webhookEvent]

\* "Failed to process message: " + err.Error()
ProcessError(err) ==
    IF err = "service unavailable"
    THEN "Failed to process message: service unavailable"
    ELSE "Failed to process message: failed to store message"

NotProcessed ==
    [err |-> "", eventID |-> <<>>, rows |-> <<>>, spawned |-> FALSE, event |-> NoEvent]

WebhookResponse(status, success, message, eventID) ==
    [status |-> status, success |-> success, message |-> message, event_id |-> eventID]

ReceiveWebhookParseFirst(method, readOK, signature, body, env, up, storeOK, t) ==
    LET m == Unmarshal(body)
        p == IF m.ok THEN processIncomingMessage(m.message, up, storeOK, t)
             ELSE NotProcessed
        ok == verifyWebhookSignature(signature, body, env)
    IN  [read |-> TRUE, verified |-> ok, parsed |-> TRUE, handed |-> m.ok, p |-> p,
         response |-> IF ~ok
                      THEN WebhookResponse(401, FALSE, "Invalid webhook signature", <<>>)
                      ELSE IF ~m.ok
                      THEN WebhookResponse(400, FALSE, "Invalid JSON payload", <<>>)
                      ELSE IF p.err # ""
                      THEN WebhookResponse(500, FALSE, ProcessError(p.err), <<>>)
                      ELSE WebhookResponse(200, TRUE, "Message processed successfully",
                                           p.eventID)]
\* ReceiveWebhook up to the return of processIncomingMessage: whether the
\* body was read (readOK: io.ReadAll returns no error), whether the
\* signature verified, whether the body was parsed, whether the message was
\* handed to processIncomingMessage and what that did, and the response that
\* the handler goes on to write
ReceiveWebhook(method, readOK, signature, body, env, up, storeOK, t) ==
    IF method # "POST"
    THEN [read |-> FALSE, verified |-> FALSE, parsed |-> FALSE, handed |-> FALSE,
          p |-> NotProcessed,
          response |-> WebhookResponse(405, FALSE, "Method not allowed", <<>>)]
    ELSE IF ~readOK
    THEN [read |-> FALSE, verified |-> FALSE, parsed |-> FALSE, handed |-> FALSE,
          p |-> NotProcessed,
          response |-> WebhookResponse(400, FALSE, "Failed to read request body", <<>>)]
    ELSE IF ~verifyWebhookSignature(signature, body, env)
    THEN [read |-> TRUE, verified |-> FALSE, parsed |-> FALSE, handed |-> FALSE,
          p |-> NotProcessed,
          response |-> WebhookResponse(401, FALSE, "Invalid webhook signature", <<>>)]
    ELSE LET m == Unmarshal(body)
         IN  IF ~m.ok
             THEN [read |-> TRUE, verified |-> TRUE, parsed |-> TRUE, handed |-> FALSE,
                   p |-> NotProcessed,
                   response |-> WebhookResponse(400, FALSE, "Invalid JSON payload", <<>>)]
             ELSE LET p == processIncomingMessage(m.message, up, storeOK, t)
                  IN  [read |-> TRUE, verified |-> TRUE, parsed |-> TRUE,
                       handed |-> TRUE, p |-> p,
                       response |->
                          IF p.err # ""
                          THEN WebhookResponse(500, FALSE, ProcessError(p.err), <<>>)
                          ELSE WebhookResponse(200, TRUE,
                                               "Message processed successfully", p.eventID)]

NoDispatch == [results |-> <<>>, err |-> "", calls |-> <<>>]

\* the JSON body of a send request decoded into a WebhookEvent, or not
Decoded(ok, event) == [ok |-> ok, event |-> event]

\* SendWebhook: the response and the dispatch it made
SendWebhookTrustsBody(method, ctx, decoded, webhookURLs, env, t, outs) ==
    LET none == [status |-> 0, error |-> "", success |-> FALSE, webhook_urls |-> 0,
                 event |-> NoEvent, dispatched |-> FALSE, dispatch |-> NoDispatch]
    IN  IF method # "POST"
        THEN [none EXCEPT !.status = 405, !.error = "Method not allowed"]
        ELSE IF ctx.user = NoUser
        THEN [none EXCEPT !.status = 401, !.error = "Authentication required"]
        ELSE IF ~decoded.ok
        THEN [none EXCEPT !.status = 400, !.error = "Invalid JSON"]
        ELSE LET event == IF decoded.event.User = ""
                          THEN [decoded.event EXCEPT !.User = ctx.user.Username,
                                                     !.Timestamp = t]
                          ELSE decoded.event
                 d == sendToWebhookURLs(event, webhookURLs, env, t, outs)
             IN  IF d.err # ""
                 THEN [none EXCEPT !.status = 500, !.error = "Failed to send webhooks",
                                   !.event = event, !.dispatched = TRUE, !.dispatch = d]
                 ELSE [none EXCEPT !.status = 200, !.success = TRUE,
                                   !.webhook_urls = Len(d.results),
                                   !.event = event, !.dispatched = TRUE, !.dispatch = d]
SendWebhook(method, ctx, decoded, webhookURLs, env, t, outs) ==
    LET none == [status |-> 0, error |-> "", success |-> FALSE, webhook_urls |-> 0,
                 event |-> NoEvent, dispatched |-> FALSE, dispatch |-> NoDispatch]
    IN  IF method # "POST"
        THEN [none EXCEPT !.status = 405, !.error = "Method not allowed"]
        ELSE IF ctx.user = NoUser
        THEN [none EXCEPT !.status = 401, !.error = "Authentication required"]
        ELSE IF ~decoded.ok
        THEN [none EXCEPT !.status = 400, !.error = "Invalid JSON"]
        ELSE LET event == [decoded.event EXCEPT !.User = ctx.user.Username,
                                                !.Timestamp = t]
                 d == sendToWebhookURLs(event, webhookURLs, env, t, outs)
             IN  IF d.err # ""
                 THEN [none EXCEPT !.status = 500, !.error = "Failed to send webhooks",
                                   !.event = event, !.dispatched = TRUE, !.dispatch = d]
                 ELSE [none EXCEPT !.status = 200, !.success = TRUE,
                                   !.webhook_urls = Len(d.results),
                                   !.event = event, !.dispatched = TRUE, !.dispatch = d]

NotSent ==
    [status |-> 0, error |-> "", success |-> FALSE, webhook_urls |-> 0,
     event |-> NoEvent, dispatched |-> FALSE, dispatch |-> NoDispatch]

NotReceived ==
    [read |-> FALSE, verified |-> FALSE, parsed |-> FALSE, handed |-> FALSE, p |-> NotProcessed,
     response |-> WebhookResponse(0, FALSE, "", <<>>)]

NotManaged ==
    [status |-> 0, error |-> "", webhooks |-> <<>>, count |-> 0,
     secret_configured |-> FALSE, success |-> FALSE, url |-> ""]

\* the JSON body of a manage request decoded into its url, or not
DecodedURL(ok, url) == [ok |-> ok, URL |-> url]

\* ManageWebhooks: the response; the configuration is read, never changed
ManageWebhooks(method, ctx, decoded, webhookURLs, env) ==
    IF ctx.user = NoUser
    THEN [NotManaged EXCEPT !.status = 401, !.error = "Authentication required"]
    ELSE IF method = "GET"
    THEN LET webhooks == getWebhookURLs(webhookURLs)
         IN  [NotManaged EXCEPT !.status = 200, !.webhooks = webhooks,
                                !.count = Len(webhooks),
                                !.secret_configured = (env # "")]
    ELSE IF method = "POST"
    THEN IF ~decoded.ok
         THEN [NotManaged EXCEPT !.status = 400, !.error = "Invalid JSON"]
         ELSE IF decoded.URL = ""
         THEN [NotManaged EXCEPT !.status = 400, !.error = "URL is required"]
         ELSE [NotManaged EXCEPT !.status = 200, !.success = TRUE, !.url = decoded.URL]
    ELSE [NotManaged EXCEPT !.status = 405, !.error = "Method not allowed"]

\* Handler of the webhook endpoints: GlobalMiddleware around the endpoint
\* switch; receive is ReceiveWebhook, send is SendWebhook and manage is
\* ManageWebhooks, each behind AuthMiddleware. in: the environment and what
\* the collaborators do.
WebhookHandler(req, t, reqs, lim, win, key, in) ==
    LET g == GlobalMiddleware(req, t, reqs, lim, win)
        passed == g.ratelimit.next > 0
        e == req.endpoint
        auth == IF passed /\ e \in {"send", "manage"}
                THEN AuthMiddleware(req.header, t, key) ELSE Skipped
        recv == IF passed /\ e = "receive"
                THEN ReceiveWebhook(req.method, req.readOK, req.signature, req.body,
                                    in.env, in.up, in.storeOK, t)
                ELSE NotReceived
        send == IF auth.next > 0 /\ e = "send"
                THEN SendWebhook(req.method, auth.ctx, req.decoded, in.webhookURLs,
                                 in.env, t, in.outs)
                ELSE NotSent
        manage == IF auth.next > 0 /\ e = "manage"
                  THEN ManageWebhooks(req.method, auth.ctx, req.decoded,
                                      in.webhookURLs, in.env)
                  ELSE NotManaged
        notFound == IF passed /\ e \notin {"receive", "send", "manage"}
                    THEN <<404>> ELSE <<>>
        wrote == g.security.wrote \o g.ratelimit.wrote \o auth.wrote \o notFound
                    \o (IF recv.response.status # 0 THEN <<recv.response.status>> ELSE <<>>)
                    \o (IF send.status # 0 THEN <<send.status>> ELSE <<>>)
                    \o (IF manage.status # 0 THEN <<manage.status>> ELSE <<>>)
    IN  [at |-> t, req |-> req, endpoint |-> IF passed THEN e ELSE "",
         status |-> FirstStatus(wrote),
         auth |-> auth, recv |-> recv, send |-> send, manage |-> manage,
         stored |-> g.stored]

\* ---- webhook Handler steps

\* the values of WHATSAPP_WEBHOOK: unset, blanks and commas only, one
\* address, three addresses among blanks and empty items, and three items:
\* an address with a blank in its path, one with a control character and
\* one with a bad percent escape
WebhookURLsEnvs ==
    {<<>>,
     <<Blank, Comma, Blank>>,
     <<"u1">>,
     <<Blank, "u1", Comma, Comma, "u2", Blank, Comma, "u3">>,
     <<"u1", Blank, "x", Comma, "u2", Ctl, Comma, "u3", BadEscape>>}

Destinations == getWebhookURLs(webhookURLsEnv)

\* what the destinations of one dispatch do, by position; a destination
\* whose address is refused is never contacted and does nothing
OutcomeChoices ==
    {outs \in [1..Len(Destinations) -> Outcomes] :
        \A i \in 1..Len(Destinations) :
            ~ParsesAsURL(Destinations[i]) => outs[i] = TransportError}

HookSource == Source(<<>>, "", "9.9.9.9")

\* the X-Hub-Signature-256 headers sent with a body: none, the sender's
\* header, the bare digest, the header of another body, and the header of a
\* sender with another key
SignaturesFor(body) ==
    {<<>>,
     signatureHeader(body, webhookEnv),
     hexHMACSHA256(webhookSecret(webhookEnv), body),
     signatureHeader(<<123, 125>>, webhookEnv),
     <<Lit("sha256=")>> \o hexHMACSHA256(ForeignKey, body)}

\* readOK: the body arrives whole, io.ReadAll returns no error
ReceiveRequest(m, readOK, sg, b) ==
    [method |-> m, src |-> HookSource, endpoint |-> "receive", readOK |-> readOK,
     signature |-> sg, body |-> b, header |-> NoHeader,
     decoded |-> Decoded(FALSE, NoEvent)]

\* the requests to the receive endpoint: every body with each of its
\* headers; a signed JSON object sent by GET; and bodies that fail to
\* arrive, with the sender's header and with none
ReceiveRequests ==
    UNION {{ReceiveRequest("POST", TRUE, sg, b) : sg \in SignaturesFor(b)} :
              b \in InboundBodies}
        \cup {ReceiveRequest("GET", TRUE, signatureHeader(<<123, 125>>, webhookEnv),
                             <<123, 125>>)}
        \cup {ReceiveRequest("POST", FALSE, sg, <<123, 125>>) :
                 sg \in {<<>>, signatureHeader(<<123, 125>>, webhookEnv)}}

\* the event a client posts to the send endpoint
ClientEvent(to) ==
    [Type |-> "custom", Timestamp |-> 7, From |-> "a", To |-> to,
     MessageID |-> "m1", Data |-> <<"d">>, User |-> "mallory"]

\* the requests to the send endpoint, and one to no endpoint
SendRequests ==
    {[method |-> m, src |-> HookSource, endpoint |-> "send", readOK |-> TRUE,
      signature |-> <<>>, body |-> <<>>, header |-> h, decoded |-> d] :
        m \in {"POST", "GET"},
        h \in {NoHeader} \cup {Header("Bearer ", i.accessToken) : i \in issued},
        d \in {Decoded(FALSE, NoEvent), Decoded(TRUE, ClientEvent("")),
               Decoded(TRUE, ClientEvent("b"))}}
        \cup {[method |-> "POST", src |-> HookSource, endpoint |-> "other",
                readOK |-> TRUE, signature |-> <<>>, body |-> <<>>,
                header |-> NoHeader, decoded |-> Decoded(FALSE, NoEvent)]}

\* the destinations are contacted by a POST to send with a token and a
\* decodable body; only then does their behaviour matter
SendChoices(req) ==
    IF req.method = "POST" /\ req.endpoint = "send" /\ req.header # NoHeader
          /\ req.decoded.ok
    THEN OutcomeChoices ELSE {[i \in 1..Len(Destinations) |-> Answer(200)]}

Collaborators(storeOK, outs) ==
    [env |-> webhookEnv, up |-> serviceUp, storeOK |-> storeOK,
     webhookURLs |-> webhookURLsEnv, outs |-> outs]

NoTask == [state |-> "none", event |-> NoEvent, err |-> ""]

InboundResponseSurfacesFanout(response, task) ==
    IF task.state = "done" /\ task.err # ""
    THEN WebhookResponse(500, FALSE, "Failed to send webhook", <<>>)
    ELSE response
\* the response ReceiveWebhook writes after processIncomingMessage returned
\* while the goroutine it started is in the state task
InboundResponse(response, task) == response

\* the sequence s without its k-th item
Without(s, k) == SubSeq(s, 1, k - 1) \o SubSeq(s, k + 1, Len(s))

\* a request to the receive endpoint passes the limiter and ReceiveWebhook
\* runs: to its response when it does not get as far as the insert into
\* chat_storage, and to the start of that insert otherwise
ReceiveAccept(req) ==
    /\ ~hlast.done
    /\ nhook + nmsg < MaxHookReq
    /\ LET r == WebhookHandler(req, now, requests["global"], limit["global"],
                               window["global"], jwtSecret,
                               Collaborators(TRUE, <<>>))
       IN  /\ requests' = [requests EXCEPT !["global"] = r.stored]
           /\ IF r.recv.p.spawned
              THEN /\ inbound' = Append(inbound, [stage |-> "insert", r |-> r, task |-> 0])
                   /\ UNCHANGED hlast
              ELSE /\ hlast' = [done |-> TRUE, kind |-> "receive", r |-> r,
                                fan |-> NoTask,
                                response |-> InboundResponse(r.recv.response, NoTask)]
                   /\ UNCHANGED inbound
    /\ nhook' = nhook + 1
    /\ UNCHANGED <<now, ticks, limit, window, mutex, pc, arg, loc, ncalls, hist, serial>>
    /\ UNCHANGED <<tokvars, pipevars, hookvars, authvars, limvars>>
    /\ UNCHANGED <<webhookURLsEnv, serviceUp, storage, tasks>>

\* the insert of the k-th call in flight returns: the row is stored, or the
\* insert fails and the call answers 500
ReceiveStore(k, storeOK) ==
    /\ ~hlast.done
    /\ k \in 1..Len(inbound)
    /\ inbound[k].stage = "insert"
    /\ LET c == inbound[k]
           recv == ReceiveWebhook(c.r.req.method, c.r.req.readOK, c.r.req.signature,
                                  c.r.req.body, webhookEnv, serviceUp, storeOK, c.r.at)
           r == [c.r EXCEPT !.recv = recv, !.status = recv.response.status]
       IN  /\ storage' = storage \o recv.p.rows
           /\ IF recv.p.spawned
              THEN /\ inbound' = [inbound EXCEPT ![k] = [stage |-> "stored", r |-> r,
                                                          task |-> 0]]
                   /\ UNCHANGED hlast
              ELSE /\ inbound' = Without(inbound, k)
                   /\ hlast' = [done |-> TRUE, kind |-> "receive", r |-> r,
                                fan |-> NoTask,
                                response |-> InboundResponse(recv.response, NoTask)]
    /\ UNCHANGED <<now, ticks, rlvars, tokvars, pipevars, hookvars, authvars, limvars>>
    /\ UNCHANGED <<webhookURLsEnv, serviceUp, tasks, nhook>>

\* the k-th call in flight, its row stored, starts the goroutine of the
\* fan-out
ReceiveSpawn(k) ==
    /\ k \in 1..Len(inbound)
    /\ inbound[k].stage = "stored"
    /\ tasks' = Append(tasks, [state |-> "spawned", event |-> inbound[k].r.recv.p.event,
                               err |-> ""])
    /\ inbound' = [inbound EXCEPT ![k] = [stage |-> "processed", r |-> @.r,
                                           task |-> Len(tasks) + 1]]
    /\ UNCHANGED hlast
    /\ UNCHANGED <<now, ticks, rlvars, tokvars, pipevars, hookvars, authvars, limvars>>
    /\ UNCHANGED <<webhookURLsEnv, serviceUp, storage, nhook>>

\* the response of the k-th call in flight is written
ReceiveRespond(k) ==
    /\ k \in 1..Len(inbound)
    /\ inbound[k].stage = "processed"
    /\ LET c == inbound[k]
           task == tasks[c.task]
       IN  hlast' = [done |-> TRUE, kind |-> "receive", r |-> c.r, fan |-> task,
                     response |-> InboundResponse(c.r.recv.response, task)]
    /\ inbound' = Without(inbound, k)
    /\ UNCHANGED <<now, ticks, rlvars, tokvars, pipevars, hookvars, authvars, limvars>>
    /\ UNCHANGED <<webhookURLsEnv, serviceUp, storage, tasks, nhook>>

\* the goroutine started by processIncomingMessage runs sendToWebhookURLs
\* and ends; its result is dropped, its error printed
FanoutRun(i, outs) ==
    /\ ~hlast.done
    /\ i \in 1..Len(tasks)
    /\ tasks[i].state = "spawned"
    /\ LET d == sendToWebhookURLs(tasks[i].event, webhookURLsEnv, webhookEnv, now, outs)
       IN  /\ tasks' = [tasks EXCEPT ![i] = [state |-> "done", event |-> @.event,
                                              err |-> d.err]]
           /\ hlast' = [done |-> TRUE, kind |-> "fanout", event |-> tasks[i].event,
                        outs |-> outs, dispatch |-> d]
    /\ UNCHANGED <<now, ticks, rlvars, tokvars, pipevars, hookvars, authvars, limvars>>
    /\ UNCHANGED <<webhookURLsEnv, serviceUp, storage, inbound, nhook>>

\* one request to the send endpoint (or to no endpoint), served to its
\* response
SendRequest(req, outs) ==
    /\ ~hlast.done
    /\ nhook + nmsg < MaxHookReq
    /\ LET r == WebhookHandler(req, now, requests["global"], limit["global"],
                               window["global"], jwtSecret,
                               Collaborators(TRUE, outs))
       IN  /\ requests' = [requests EXCEPT !["global"] = r.stored]
           /\ hlast' = [done |-> TRUE, kind |-> "send", r |-> r, event |-> r.send.event,
                        outs |-> IF r.send.dispatched THEN outs ELSE <<>>,
                        dispatch |-> r.send.dispatch]
    /\ nhook' = nhook + 1
    /\ UNCHANGED <<now, ticks, limit, window, mutex, pc, arg, loc, ncalls, hist, serial>>
    /\ UNCHANGED <<tokvars, pipevars, hookvars, authvars, limvars>>
    /\ UNCHANGED <<webhookURLsEnv, serviceUp, storage, tasks, inbound>>

\* the requests to the manage endpoint: reading the configuration and
\* adding an address, with and without a token, with a body that is no
\* JSON, one without an address and one with an address
ManageRequests ==
    {[method |-> m, src |-> HookSource, endpoint |-> "manage", readOK |-> TRUE,
      signature |-> <<>>, body |-> <<>>, header |-> h, decoded |-> d] :
        m \in {"GET", "POST", "DELETE"},
        h \in {NoHeader} \cup {Header("Bearer ", i.accessToken) : i \in issued},
        d \in {DecodedURL(FALSE, ""), DecodedURL(TRUE, ""), DecodedURL(TRUE, "u9")}}

\* one request to the manage endpoint, served to its response
ManageRequest(req) ==
    /\ ~hlast.done
    /\ nhook + nmsg < MaxHookReq
    /\ LET r == WebhookHandler(req, now, requests["global"], limit["global"],
                               window["global"], jwtSecret,
                               Collaborators(TRUE, <<>>))
       IN  /\ requests' = [requests EXCEPT !["global"] = r.stored]
           /\ hlast' = [done |-> TRUE, kind |-> "manage", r |-> r]
    /\ nhook' = nhook + 1
    /\ UNCHANGED <<now, ticks, limit, window, mutex, pc, arg, loc, ncalls, hist, serial>>
    /\ UNCHANGED <<tokvars, pipevars, hookvars, authvars, limvars>>
    /\ UNCHANGED <<webhookURLsEnv, serviceUp, storage, tasks, inbound>>

\* what the webhook Handler did last has been looked at
HookRespond ==
    /\ hlast.done
    /\ hlast' = NoRequest
    /\ UNCHANGED <<now, ticks, rlvars, tokvars, pipevars, hookvars, authvars, limvars>>
    /\ UNCHANGED <<webhookURLsEnv, serviceUp, storage, tasks, inbound, nhook>>

\* A fresh instance: the limiters as configured in the source, no request
\* served yet; "alice" holds a token pair issued at instant 0.
InitDispatch ==
    /\ now = 0
    /\ ticks = 0
    /\ limit = [l \in Limiters |-> IF l = "global" THEN GlobalLimit ELSE AuthLimit]
    /\ window = [l \in Limiters |-> IF l = "global" THEN GlobalWindow ELSE AuthWindow]
    /\ RLIdle
    /\ jwtSecret = getJWTSecret("")
    /\ issued = {generateTokens("alice", 0, <<0, 0>>, <<0, 1>>, jwtSecret)}
    /\ mono = 2
    /\ verdict = NoVerdict
    /\ expiredSeen = {}
    /\ PipeIdle
    /\ webhookEnv \in WebhookSecretEnv
    /\ HookIdle
    /\ webhookURLsEnv \in WebhookURLsEnvs
    /\ serviceUp \in BOOLEAN
    /\ storage = <<>>
    /\ tasks = <<>>
    /\ inbound = <<>>
    /\ hlast = NoRequest
    /\ nhook = 0
    /\ AuthIdle

NextDispatch ==
    \/ (~hlast.done /\ ~mlast.done /\ nhook + nmsg < MaxHookReq) /\
           \E req \in ReceiveRequests : ReceiveAccept(req)
    \/ \E k \in 1..Len(inbound), storeOK \in BOOLEAN : ReceiveStore(k, storeOK)
    \/ \E k \in 1..Len(inbound) : ReceiveSpawn(k)
    \/ \E k \in 1..Len(inbound) : ReceiveRespond(k)
    \/ (~hlast.done /\ ~mlast.done) /\
           \E i \in 1..Len(tasks), outs \in OutcomeChoices : FanoutRun(i, outs)
    \/ (~hlast.done /\ ~mlast.done /\ nhook + nmsg < MaxHookReq) /\
           \E req \in SendRequests : \E outs \in SendChoices(req) : SendRequest(req, outs)
    \/ HookRespond
    \/ (~mlast.done /\ ~hlast.done /\ nhook + nmsg < MaxHookReq) /\
           \E req \in MessageRequests : MessagesRequest(req)
    \/ \E i \in 1..Len(sending), storeOK \in BOOLEAN : StoreSent(i, storeOK)
    \/ MessagesRespond

SpecDispatch == InitDispatch /\ [][NextDispatch]_vars

\* the manage endpoint, called now and after the tokens have expired
NextManage ==
    \/ (~hlast.done /\ nhook < MaxHookReq) /\ \E req \in ManageRequests : ManageRequest(req)
    \/ HookRespond
    \/ \E d \in {1, AccessTTL} : Advance(d)

SpecManage == InitDispatch /\ [][NextManage]_vars

\* ----------------------------------------------------------- auth Handler
MaxAuthReq == 2
MaxAttempts == 6

Colon == ":"

\* a Go string as the sequence of its characters: a name or a password is
\* one character of the model, the empty string none
Str(s) == IF s = "" THEN <<>> ELSE <<s>>

\* the values of APP_BASIC_AUTH: unset; two pairs and an item with a blank
\* before the colon, with blanks around the items; an item with two colons,
\* an item with none and two pairs
BasicAuthEnvs ==
    {<<>>,
     <<"alice", Colon, "pw1", Comma, Blank, "admin", Colon, "pw2", Blank, Comma,
       "carol", Blank, Colon, "pw3">>,
     <<"alice", Colon, "pw1", Colon, "pw2", Comma, "carol", Comma, "Admin", Colon, "pw3",
       Comma, "admin", Colon, "pw2">>}

validateCredentialsAnyPassword(username, password, env) ==
    LET basicAuth == IF env = <<>> THEN <<"admin", Colon, "whatsapp2024">> ELSE env
        credentials == Split(basicAuth, Comma)
    IN  \E i \in 1..Len(credentials) :
            LET parts == Split(TrimSpace(credentials[i]), Colon)
            IN  Len(parts) = 2 /\ parts[1] = Str(username)
\* validateCredentials(username, password), env the value of APP_BASIC_AUTH
validateCredentials(username, password, env) ==
    LET basicAuth == IF env = <<>> THEN <<"admin", Colon, "whatsapp2024">> ELSE env
        credentials == Split(basicAuth, Comma)
    IN  \E i \in 1..Len(credentials) :
            LET parts == Split(TrimSpace(credentials[i]), Colon)
            IN  Len(parts) = 2 /\ parts[1] = Str(username) /\ parts[2] = Str(password)

NoAuthUser == [ID |-> <<>>, Username |-> "", Role |-> "", Created |-> 0]

\* an AuthResponse with its status; issued holds the generateTokens call
\* made for it, readings counts the time.Now().String() readings made
AuthFailure(status, message) ==
    [status |-> status, success |-> FALSE, message |-> message,
     token |-> <<>>, refresh_token |-> <<>>, expires_in |-> 0, user |-> NoAuthUser,
     issued |-> {}, readings |-> 0]

NotServed == AuthFailure(0, "")

\* the decoded body of a request: AuthRequest or RefreshRequest
Body(ok, username, password, refreshToken) ==
    [ok |-> ok, username |-> username, password |-> password,
     refresh_token |-> refreshToken]

\* Login at second t, n readings of the sub-second clock made before
Login(method, decoded, env, t, n, key) ==
    IF method # "POST" THEN AuthFailure(405, "Method not allowed")
    ELSE IF ~decoded.ok THEN AuthFailure(400, "Invalid JSON")
    ELSE IF decoded.username = "" \/ decoded.password = ""
    THEN AuthFailure(400, "Username and password are required")
    ELSE IF ~validateCredentials(decoded.username, decoded.password, env)
    THEN AuthFailure(401, "Invalid credentials")
    ELSE LET g == generateTokens(decoded.username, t, <<t, n>>, <<t, n + 1>>, key)
         IN  [status |-> 200, success |-> TRUE,
              message |-> "Authentication successful",
              token |-> g.accessToken, refresh_token |-> g.refreshToken,
              expires_in |-> g.expiresIn,
              user |-> [ID |-> generateUserID(decoded.username, <<t, n + 2>>),
                        Username |-> decoded.username,
                        Role |-> getUserRole(decoded.username),
                        Created |-> t],
              issued |-> {g}, readings |-> 3]

RefreshTokenRefreshOnly(method, decoded, t, n, key) ==
    IF method # "POST" THEN AuthFailure(405, "Method not allowed")
    ELSE IF ~decoded.ok THEN AuthFailure(400, "Invalid JSON")
    ELSE LET v == validateRefreshToken(decoded.refresh_token, t, key)
         IN  IF ~v.ok \/ v.claims.ExpiresAt - v.claims.IssuedAt # RefreshTTL
             THEN AuthFailure(401, "Invalid refresh token")
             ELSE LET g == generateTokens(v.claims.Username, t, <<t, n>>, <<t, n + 1>>, key)
                  IN  [status |-> 200, success |-> TRUE,
                       message |-> "Token refreshed successfully",
                       token |-> g.accessToken, refresh_token |-> g.refreshToken,
                       expires_in |-> g.expiresIn, user |-> NoAuthUser,
                       issued |-> {g}, readings |-> 2]
\* RefreshToken at second t, n readings of the sub-second clock made before
RefreshToken(method, decoded, t, n, key) ==
    IF method # "POST" THEN AuthFailure(405, "Method not allowed")
    ELSE IF ~decoded.ok THEN AuthFailure(400, "Invalid JSON")
    ELSE LET v == validateRefreshToken(decoded.refresh_token, t, key)
         IN  IF ~v.ok
             THEN AuthFailure(401, "Invalid refresh token")
             ELSE LET g == generateTokens(v.claims.Username, t, <<t, n>>, <<t, n + 1>>, key)
                  IN  [status |-> 200, success |-> TRUE,
                       message |-> "Token refreshed successfully",
                       token |-> g.accessToken, refresh_token |-> g.refreshToken,
                       expires_in |-> g.expiresIn, user |-> NoAuthUser,
                       issued |-> {g}, readings |-> 2]

Invalid(status, error) ==
    [status |-> status, error |-> error, valid |-> FALSE, claims |-> NoClaims]

NotValidated == Invalid(0, "")

\* ValidateToken at second t
ValidateToken(method, authHeader, t, key) ==
    IF method # "GET" THEN Invalid(405, "Method not allowed")
    ELSE IF authHeader = NoHeader THEN Invalid(401, "Authorization header required")
    ELSE LET tokenString == TrimPrefixBearer(authHeader)
         IN  IF tokenString = authHeader
             THEN Invalid(401, "Invalid token format")
             ELSE LET v == validateJWTToken(tokenString.tok, t, key)
                  IN  IF ~v.ok THEN Invalid(401, "Invalid token")
                      ELSE [status |-> 200, error |-> "", valid |-> TRUE,
                            claims |-> v.claims]

\* Handler of the auth endpoints: GlobalMiddleware around the endpoint
\* switch
AuthHandler(req, t, reqs, lim, win, key, env, n) ==
    LET g == GlobalMiddleware(req, t, reqs, lim, win)
        passed == g.ratelimit.next > 0
        e == req.endpoint
        resp == IF passed /\ e = "login"
                THEN Login(req.method, req.decoded, env, t, n, key)
                ELSE IF passed /\ e = "refresh"
                THEN RefreshToken(req.method, req.decoded, t, n, key)
                ELSE NotServed
        val == IF passed /\ e = "validate"
               THEN ValidateToken(req.method, req.header, t, key)
               ELSE NotValidated
        notFound == IF passed /\ e \notin {"login", "refresh", "validate"}
                    THEN <<404>> ELSE <<>>
        wrote == g.security.wrote \o g.ratelimit.wrote \o notFound
                    \o (IF resp.status # 0 THEN <<resp.status>> ELSE <<>>)
                    \o (IF val.status # 0 THEN <<val.status>> ELSE <<>>)
    IN  [at |-> t, req |-> req, endpoint |-> IF passed THEN e ELSE "",
         status |-> FirstStatus(wrote), resp |-> resp, val |-> val,
         stored |-> g.stored]

\* ---- auth Handler steps
AuthSource == Source(<<>>, "", "7.7.7.7")

NoBody == Body(FALSE, "", "", <<>>)

\* the credentials submitted: the default pair, the configured pairs, pairs
\* that mix them up, and pairs with an empty name or password
Credentials ==
    {<<"admin", "whatsapp2024">>, <<"alice", "pw1">>, <<"admin", "pw2">>,
     <<"alice", "pw2">>, <<"Admin", "pw3">>, <<"carol", "pw3">>,
     <<"", "pw1">>, <<"alice", "">>}

AuthCall(m, e, h, d) ==
    [method |-> m, src |-> AuthSource, endpoint |-> e, header |-> h, decoded |-> d]

LoginRequests ==
    {AuthCall("POST", "login", NoHeader, Body(TRUE, c[1], c[2], <<>>)) : c \in Credentials}
        \cup {AuthCall("POST", "login", NoHeader, NoBody),
              AuthCall("GET", "login", NoHeader, Body(TRUE, "admin", "whatsapp2024", <<>>))}

\* the tokens sent to the auth endpoints: the issued ones, the malformed
\* ones, and the altered and self-made copies of the refresh tokens
AuthTokens ==
    IssuedTokens \cup Malformed
        \cup UNION {Altered(i.refreshToken) : i \in issued}
        \cup UNION {SelfMade(i.refreshToken, jwtSecret) : i \in issued}

RefreshRequests ==
    {AuthCall("POST", "refresh", NoHeader, Body(TRUE, "", "", tok)) : tok \in AuthTokens}
        \cup {AuthCall("POST", "refresh", NoHeader, NoBody)}
        \cup {AuthCall("GET", "refresh", NoHeader, Body(TRUE, "", "", i.refreshToken)) :
                 i \in issued}

ValidateRequests ==
    {AuthCall("GET", "validate", h, NoBody) :
        h \in {NoHeader} \cup {Header("Bearer ", tok) : tok \in IssuedTokens \cup Malformed}
                 \cup {Header(sc, i.accessToken) : sc \in {"", "Basic "}, i \in issued}}
        \cup {AuthCall("POST", e, Header("Bearer ", i.accessToken), NoBody) :
                 e \in {"validate", "other"}, i \in issued}

AuthRequests == LoginRequests \cup RefreshRequests \cup ValidateRequests

\* one request to the auth Handler, served to its response
AuthServe(req) ==
    /\ ~aresp.done
    /\ LET r == AuthHandler(req, now, requests["global"], limit["global"],
                            window["global"], jwtSecret, basicAuthEnv, mono)
           accepted == r.endpoint = "refresh" /\ r.resp.status = 200
       IN  /\ requests' = [requests EXCEPT !["global"] = r.stored]
           /\ issued' = issued \cup r.resp.issued
           /\ mono' = mono + r.resp.readings
           /\ refreshed' = IF accepted
                           THEN refreshed \cup {req.decoded.refresh_token}
                           ELSE refreshed
           /\ aresp' = [done |-> TRUE, r |-> r,
                        used |-> req.decoded.refresh_token \in refreshed,
                        before |-> issued]
    /\ nauth' = nauth + 1
    /\ UNCHANGED <<now, ticks, limit, window, mutex, pc, arg, loc, ncalls, hist, serial>>
    /\ UNCHANGED <<jwtSecret, verdict, expiredSeen, basicAuthEnv>>
    /\ UNCHANGED <<pipevars, hookvars, dispvars, limvars>>

\* one of a bounded number of requests
AuthRequest(req) ==
    /\ nauth < MaxAuthReq
    /\ AuthServe(req)

\* the response has been sent
AuthRespond ==
    /\ aresp.done
    /\ aresp' = NoRequest
    /\ UNCHANGED <<now, ticks, rlvars, tokvars, pipevars, hookvars, dispvars, limvars>>
    /\ UNCHANGED <<basicAuthEnv, refreshed, nauth>>

\* between two requests an hour or a week may pass
AuthClockSteps == {AccessTTL, RefreshTTL}

\* the clock steps taken while the auth Handler is watched
MaxAuthTicks == 1

\* A fresh instance, the limiters as the program builds them, no request
\* served yet; "alice" holds a token pair issued at instant 0 by an instance
\* with the same secret.
InitAuth ==
    /\ now = 0
    /\ ticks = 0
    /\ limit = [l \in Limiters |-> IF l = "global" THEN GlobalLimit ELSE AuthLimit]
    /\ window = [l \in Limiters |-> IF l = "global" THEN GlobalWindow ELSE AuthWindow]
    /\ RLIdle
    /\ jwtSecret = getJWTSecret("")
    /\ issued = {generateTokens("alice", 0, <<0, 0>>, <<0, 1>>, jwtSecret)}
    /\ mono = 2
    /\ verdict = NoVerdict
    /\ expiredSeen = {}
    /\ PipeIdle
    /\ webhookEnv = ""
    /\ HookIdle
    /\ DispIdle
    /\ basicAuthEnv \in BasicAuthEnvs
    /\ aresp = NoRequest
    /\ refreshed = {}
    /\ nauth = 0

NextAuth ==
    \/ \E req \in AuthRequests : AuthRequest(req)
    \/ AuthRespond
    \/ \E d \in AuthClockSteps : ~aresp.done /\ ticks < MaxAuthTicks /\ Advance(d)

SpecAuth == InitAuth /\ [][NextAuth]_vars

\* ---- the auth endpoints under the limiters as the program builds them

\* what one caller sends again and again: a wrong password, the right
\* one, a token to validate, a refresh without a token
Attempts ==
    {AuthCall("POST", "login", NoHeader, Body(TRUE, "admin", "pw2", <<>>)),
     AuthCall("POST", "login", NoHeader, Body(TRUE, "admin", "whatsapp2024", <<>>)),
     AuthCall("GET", "validate", NoHeader, NoBody),
     AuthCall("POST", "refresh", NoHeader, NoBody)}

\* one of the caller's attempts
AuthAttempt(req) ==
    /\ nauth < MaxAttempts
    /\ AuthServe(req)

InitThrottle ==
    /\ now = 0
    /\ ticks = 0
    /\ limit = [l \in Limiters |-> IF l = "auth" THEN AuthLimit ELSE GlobalLimit]
    /\ window = [l \in Limiters |-> IF l = "auth" THEN AuthWindow ELSE GlobalWindow]
    /\ RLIdle
    /\ jwtSecret = getJWTSecret("")
    /\ issued = {}
    /\ mono = 0
    /\ verdict = NoVerdict
    /\ expiredSeen = {}
    /\ PipeIdle
    /\ webhookEnv = ""
    /\ HookIdle
    /\ DispIdle
    /\ basicAuthEnv = <<>>
    /\ aresp = NoRequest
    /\ refreshed = {}
    /\ nauth = 0

NextThrottle ==
    \/ \E req \in Attempts : AuthAttempt(req)
    \/ AuthRespond
    \/ \E d \in {1, AuthWindow} : ~aresp.done /\ Advance(d)

SpecThrottle == InitThrottle /\ [][NextThrottle]_vars

\* ------------------------------------------------------------ claims C1, C2

WithinWindow(h, k, w) == h[k].t - h[1].t < w

\* C1: from an empty history the first `limit` Allow calls of an identifier
\* made within one window are all admitted, the (limit+1)-th call inside that
\* window is rejected, and the first call made once `window` seconds have
\* passed since the first admitted call is admitted again.
C1_LimitThenReject ==
    \A l \in Limiters, id \in Identifiers :
        LET h == hist[l][id]
            n == limit[l]
            w == window[l]
        IN  /\ \A k \in 1..Len(h) : (k <= n /\ WithinWindow(h, k, w)) => h[k].ok
            /\ (Len(h) >= n + 1 /\ WithinWindow(h, n + 1, w)) => ~h[n + 1].ok
            /\ \A j \in 1..Len(h) :
                   (/\ ~WithinWindow(h, j, w)
                    /\ \A i \in 1..(j - 1) : WithinWindow(h, i, w)) => h[j].ok

\* an identifier used its whole quota, was rejected inside the window and
\* was admitted again by the first call after the window had passed
C1_Witness ==
    \E l \in Limiters, id \in Identifiers :
        LET h == hist[l][id]
            n == limit[l]
        IN  /\ Len(h) >= n + 2
            /\ WithinWindow(h, n + 1, window[l])
            /\ ~h[n + 1].ok
            /\ ~WithinWindow(h, n + 2, window[l])
            /\ h[n + 2].ok

InCritical(w) == pc[w] \in {"locked", "pruned"}

AdmittedIn(h, lo, hi) == {j \in 1..Len(h) : h[j].ok /\ h[j].t > lo /\ h[j].t <= hi}

\* C2: concurrent Allow calls on one limiter behave as if run one at a time:
\* at most one caller is inside the critical section, whenever the mutex is
\* free the stored map equals the map of the serial execution and every
\* call returned what the serial execution returns, no stored list is longer
\* than `limit`, and no window of `window` seconds holds more than `limit`
\* admitted timestamps.
C2_Serialized ==
    /\ \A l \in Limiters :
          /\ Cardinality({w \in Workers : InCritical(w) /\ arg[w].l = l}) <= 1
          /\ mutex[l] = NoWorker => requests[l] = serial[l]
          /\ \A id \in DOMAIN requests[l] : Len(requests[l][id]) <= limit[l]
    /\ \A l \in Limiters, id \in Identifiers :
          LET h == hist[l][id]
          IN  \A i \in 1..Len(h) :
                 /\ h[i].ok = h[i].serial
                 /\ h[i].ok =>
                      Cardinality(AdmittedIn(h, h[i].t - window[l], h[i].t)) <= limit[l]

\* one caller waits for the mutex while another, inside Allow for the same
\* identifier, is about to take the last free slot of the window
C2_Witness ==
    \E w1 \in Workers, w2 \in Workers :
        /\ w1 # w2
        /\ pc[w1] = "waiting"
        /\ pc[w2] = "pruned"
        /\ arg[w1] = arg[w2]
        /\ Len(loc[w2].valid) = limit[arg[w2].l] - 1

\* ------------------------------------------------------------ claims C3, C4

\* the signature segment is the MAC, under the shared secret, of the token's
\* own first two segments
SignedBySecret(tok) ==
    /\ Len(tok) = 3
    /\ tok[1].alg \in HMACMethods
    /\ tok[3].key = jwtSecret
    /\ tok[3].alg = tok[1].alg
    /\ tok[3].msg = <<tok[1], tok[2]>>

InValidity(tok, t) == tok[2].nbf <= t /\ t < tok[2].exp

AlteredIssued(tok) == \E g \in IssuedTokens : tok \in Altered(g)

\* C3: validate accepts a token exactly when its signature verifies against
\* the shared secret and not-before <= now < expires-at; a token whose
\* claims were altered after signing is rejected with a signature error, a
\* token at or past its expires-at is rejected even when correctly signed,
\* and a token once rejected as expired is never accepted later.
C3_ValidateIff ==
    verdict.done =>
        LET tok == verdict.tok
            r == verdict.res
        IN  /\ r.ok <=> (SignedBySecret(tok) /\ InValidity(tok, verdict.at))
            /\ AlteredIssued(tok) => (~r.ok /\ r.err = "signature")
            /\ (SignedBySecret(tok) /\ tok[2].exp <= verdict.at) =>
                    (~r.ok /\ r.err = "expired")
            /\ \A e \in expiredSeen :
                  (e.tok = tok /\ e.at <= verdict.at) => ~r.ok

\* a correctly signed issued token, rejected as expired at an earlier
\* instant, is presented again later and rejected again
C3_Witness ==
    /\ verdict.done
    /\ verdict.tok \in IssuedTokens
    /\ \E e \in expiredSeen : e.tok = verdict.tok /\ e.at < verdict.at
    /\ verdict.res.err = "expired"

\* C4: before its expiry, validating either token returned by generateTokens
\* succeeds and returns exactly the claims embedded at issuance (user id,
\* username, role, issuer, issued-at, not-before, expires-at).
C4_RoundTrip ==
    \A i \in issued :
        /\ (verdict.done /\ verdict.tok = i.accessToken
                /\ verdict.at < i.claims.ExpiresAt) =>
              (verdict.res.ok /\ verdict.res.claims = i.claims)
        /\ (verdict.done /\ verdict.tok = i.refreshToken
                /\ verdict.at < i.refreshClaims.ExpiresAt) =>
              (verdict.res.ok /\ verdict.res.claims = i.refreshClaims)

\* the refresh token of an issuance is validated in its last valid second,
\* after the access token of the same issuance has expired
C4_Witness ==
    \E i \in issued :
        /\ verdict.done
        /\ verdict.tok = i.refreshToken
        /\ verdict.at = i.refreshClaims.ExpiresAt - 1
        /\ verdict.at >= i.claims.ExpiresAt
        /\ verdict.res.claims = i.refreshClaims

\* ------------------------------------------------------------ claims C5, C6

\* the Authorization header of the request is "Bearer <token>" and validate
\* accepts the token at the instant of the request
ValidBearer(r) ==
    /\ r.header.scheme = "Bearer "
    /\ SignedBySecret(r.header.tok)
    /\ InValidity(r.header.tok, r.at)

\* a handler ran only for a valid Bearer token, and the authentication guard
\* that saw one passed on the claims of that very token and the identity
\* (user id, username, role) read from them
BearerAccepted(r) ==
    /\ r.handler.ran => (r.auth.next = 1 /\ ValidBearer(r))
    /\ (r.auth.ran /\ ValidBearer(r)) =>
          LET p == r.header.tok[2]
          IN  /\ r.auth.next = 1
              /\ r.auth.wrote = <<>>
              /\ r.ctx.hasClaims
              /\ r.ctx.claims = UnmarshalClaims(p)
              /\ r.ctx.user = [ID |-> p.user_id,
                               Username |-> p.username,
                               Role |-> p.role]
              /\ r.endpoint \in {"profile", "send", "history"} => r.handler.ran

\* C5 as stated: a business handler of a protected endpoint runs only for a
\* request whose Authorization header is "Bearer <token>" with a token that
\* validate accepts, the context then carrying the claims and the identity
\* of that token; every other request to the protected Handler is answered
\* 401 and runs no handler.
C5_OtherwiseAlways401 ==
    (last.done /\ last.r.via = "Handler") =>
        LET r == last.r
        IN  /\ BearerAccepted(r)
            /\ ~ValidBearer(r) => (r.status = 401 /\ ~r.handler.ran)

\* C5: a business handler of a protected endpoint runs only for a request
\* whose Authorization header is "Bearer <token>" with a token that validate
\* accepts; the authentication guard then passes on the claims of that very
\* token and the identity (user id, username, role) read from them; a
\* request with any other header runs no handler and gets no claims, and it
\* is answered 401 whenever it reaches the authentication guard; a request
\* that does not reach it, whatever its header, runs no handler and has the
\* answer of the guard that stopped it: 200 of the security headers for
\* OPTIONS, 429 of the rate limit, 401 of a role check chained in front of
\* authentication.
C5_BearerOnly ==
    last.done =>
        LET r == last.r
        IN  /\ BearerAccepted(r)
            /\ ~ValidBearer(r) =>
                  /\ ~r.handler.ran
                  /\ r.ran = ""
                  /\ r.ctx = EmptyCtx
            /\ (r.auth.ran /\ ~ValidBearer(r)) =>
                  /\ r.status = 401
                  /\ r.auth.wrote = <<401>>
                  /\ r.auth.next = 0
            /\ ~r.auth.ran =>
                  /\ ~r.handler.ran
                  /\ r.ran = ""
                  /\ r.ctx = EmptyCtx
                  /\ \/ /\ r.via = "Handler"
                        /\ r.method = "OPTIONS"
                        /\ r.security.wrote = <<200>>
                        /\ ~r.ratelimit.ran
                        /\ r.status = 200
                     \/ /\ r.via = "Handler"
                        /\ r.method # "OPTIONS"
                        /\ r.ratelimit.wrote = <<429>>
                        /\ r.status = 429
                     \/ /\ r.via = "ChainMiddleware"
                        /\ r.admin.wrote = <<401>>
                        /\ r.status = 401
            /\ (r.via = "Handler" /\ r.status = 401) => r.auth.wrote = <<401>>

\* alice's access token, sent as a Bearer header to the send endpoint, was
\* accepted: ProtectedSendMessage ran with her identity in the context
C5_Witness ==
    /\ last.done
    /\ last.r.via = "Handler"
    /\ last.r.ran = "ProtectedSendMessage"
    /\ last.r.status = 200
    /\ last.r.header.tok \in {i.accessToken : i \in issued}
    /\ last.r.ctx.user.Username = "alice"
    /\ last.r.ctx.user.Role = "user"

Before(trace, a, b) ==
    \E i \in 1..Len(trace), j \in 1..Len(trace) :
        i < j /\ trace[i] = a /\ trace[j] = b

\* C6: AdminDashboard runs only for a request whose validated claims carry
\* the role admin; valid claims of another role are answered 403 without
\* running the handler; in the protected Handler the role check runs after
\* authentication, and wherever it passes authentication has passed before
\* it; a role check reached with no claims in the context answers 401
\* without running the handler.
C6_AdminOnly ==
    last.done =>
        LET r == last.r
        IN  /\ r.ran = "AdminDashboard" =>
                  /\ r.admin.next = 1
                  /\ ValidBearer(r)
                  /\ r.ctx.hasClaims
                  /\ r.ctx.claims.Role = "admin"
                  /\ r.header.tok[2].role = "admin"
            /\ (r.admin.ran /\ r.ctx.hasClaims /\ r.ctx.claims.Role # "admin") =>
                  /\ r.status = 403
                  /\ r.admin.wrote = <<403>>
                  /\ r.admin.next = 0
                  /\ ~r.handler.ran
            /\ (r.admin.ran /\ r.via = "Handler") => Before(r.trace, "auth", "admin")
            /\ r.admin.next = 1 => (r.auth.next = 1 /\ Before(r.trace, "auth", "admin"))
            /\ (r.admin.ran /\ ~r.ctx.hasClaims) =>
                  /\ r.status = 401
                  /\ r.admin.wrote = <<401>>
                  /\ r.admin.next = 0
                  /\ ~r.handler.ran

\* alice's valid token, role user, reached the role check of the dashboard
\* through the protected Handler and was answered 403
C6_Witness ==
    /\ last.done
    /\ last.r.via = "Handler"
    /\ last.r.endpoint = "dashboard"
    /\ last.r.auth.next = 1
    /\ last.r.ctx.claims.Username = "alice"
    /\ last.r.admin.wrote = <<403>>
    /\ last.r.status = 403
    /\ ~last.r.handler.ran

\* ------------------------------------------------------------ claims C7, C8

\* the statuses with which each guard may finalize a response
RejectStatus(name) ==
    CASE name = "security" -> {200}
      [] name = "ratelimit" -> {429}
      [] name = "auth" -> {401}
      [] name = "admin" -> {401, 403}

IsLast(trace, name) == Len(trace) > 0 /\ trace[Len(trace)] = name

Count(trace, name) == Cardinality({i \in 1..Len(trace) : trace[i] = name})

\* C7: a guard that rejects (rate limit 429, authentication 401, role check
\* 403 or 401, security headers on OPTIONS 200) writes the response itself,
\* does not invoke the next stage, and nothing runs after it; a guard that
\* passes writes nothing and invokes the next stage exactly once.
C7_RejectFinalizes ==
    last.done =>
        LET r == last.r
        IN  /\ \A name \in {"security", "ratelimit", "auth", "admin"} :
                  LET o == r[name]
                  IN  o.ran =>
                        /\ o.next \in {0, 1}
                        /\ (o.wrote # <<>>) <=> (o.next = 0)
                        /\ o.wrote # <<>> =>
                              /\ Len(o.wrote) = 1
                              /\ o.wrote[1] \in RejectStatus(name)
                              /\ r.status = o.wrote[1]
                              /\ IsLast(r.trace, name)
                              /\ ~r.handler.ran
                        /\ o.next = 1 =>
                              \/ ~IsLast(r.trace, name)
                              \/ (name = "auth" /\ r.endpoint = "other" /\ r.status = 404)
                        /\ Count(r.trace, name) = 1
            /\ r.security.ran => ((r.method = "OPTIONS") <=> (r.security.wrote = <<200>>))
            /\ r.security.wrote # <<>> => ~r.ratelimit.ran
            /\ r.ratelimit.wrote # <<>> => ~r.auth.ran
            /\ (r.auth.wrote # <<>> /\ r.via = "Handler") => ~r.admin.ran
            /\ r.admin.wrote # <<>> => ~r.handler.ran

\* the rate-limit guard answered 429 itself and nothing ran behind it
C7_Witness ==
    /\ last.done
    /\ last.r.ratelimit.wrote = <<429>>
    /\ last.r.ratelimit.next = 0
    /\ last.r.status = 429
    /\ last.r.trace = <<"security", "ratelimit">>

IsPrefix(s, t) == Len(s) <= Len(t) /\ \A i \in 1..Len(s) : s[i] = t[i]

\* the stages of the protected Handler for an endpoint, outermost first
StageOrder(endpoint) ==
    IF endpoint = "dashboard"
    THEN <<"security", "ratelimit", "auth", "admin", "handler">>
    ELSE <<"security", "ratelimit", "auth", "handler">>

\* C8 as stated: the stages of a request to the protected Handler run in the
\* order security headers, rate-limit check, token validation, role check (on
\* the dashboard route only), handler; the rate-limit check is keyed by the
\* IP address of the caller; a request answered 429 by the rate limiter never
\* reaches token validation.
C8_GuardOrderKeyedByCallerIP ==
    (last.done /\ last.r.via = "Handler") =>
        LET r == last.r
        IN  /\ r.security.ran
            /\ IsPrefix(r.trace, StageOrder(r.endpoint))
            /\ r.admin.ran => r.endpoint = "dashboard"
            /\ (r.handler.ran /\ r.endpoint = "dashboard") => r.admin.next = 1
            /\ r.handler.ran =>
                  (r.security.next = 1 /\ r.ratelimit.next = 1 /\ r.auth.next = 1)
            /\ r.auth.ran => (r.ratelimit.next = 1 /\ r.security.next = 1)
            /\ r.ratelimit.ran =>
                  /\ r.key = r.src.remote[1]
                  /\ r.key \in DOMAIN r.stored
                  /\ r.ratelimit.next = 1 =>
                        LET l == r.stored[r.key]
                        IN  Len(l) > 0 /\ l[Len(l)] = r.at
            /\ r.ratelimit.wrote = <<429>> =>
                  /\ ~r.auth.ran
                  /\ r.ctx = EmptyCtx
                  /\ r.status = 429

\* a request to the dashboard passed all five stages in order, and the
\* rate-limit check counted it under the first X-Forwarded-For address, which
\* is not the address it came from
C8_Witness ==
    /\ last.done
    /\ last.r.via = "Handler"
    /\ last.r.trace = <<"security", "ratelimit", "auth", "admin", "handler">>
    /\ last.r.src.xff # <<>>
    /\ last.r.key = last.r.src.xff[1]
    /\ last.r.key # last.r.src.remote[1]
    /\ last.r.status = 200

\* ----------------------------------------------------------- claims C9, C10

\* C9: the header "sha256=" + sign(payload) made by the sender verifies
\* against the payload that was signed, under every configured secret and
\* under the fallback, and does not verify against any payload that differs
\* from the signed one.
C9_SignVerify ==
    (sent.done /\ checked.done /\ checked.signature = sent.header) =>
        /\ sent.header = <<Lit("sha256=")>>
                            \o hexHMACSHA256(webhookSecret(webhookEnv), sent.payload)
        /\ checked.ok <=> (checked.payload = sent.payload)

\* the header of a delivery was verified against a payload of the same
\* length that differs from the signed one in exactly one byte, and failed
C9_Witness ==
    /\ sent.done
    /\ checked.done
    /\ checked.signature = sent.header
    /\ Len(checked.payload) = Len(sent.payload)
    /\ Cardinality({i \in 1..Len(sent.payload) :
                       checked.payload[i] # sent.payload[i]}) = 1
    /\ ~checked.ok

\* the MAC of the payload under the secret in force, in lower-case hex
ExpectedDigest(payload) ==
    [kind |-> "hex", text |-> "",
     key |-> IF webhookEnv = "" THEN "super-secret-webhook-key" ELSE webhookEnv,
     msg |-> payload]

\* C10: verify is true exactly when the header is non-empty and is, with or
\* without one leading "sha256=", the lower-case hex HMAC-SHA256 of the
\* payload under the secret in force; an empty or absent header fails,
\* with a secret configured and without.
C10_VerifyIff ==
    checked.done =>
        /\ checked.ok <=>
              /\ checked.signature # <<>>
              /\ \/ checked.signature = <<ExpectedDigest(checked.payload)>>
                 \/ checked.signature =
                        <<Lit("sha256="), ExpectedDigest(checked.payload)>>
        /\ checked.signature = <<>> => ~checked.ok

\* with no secret configured, a request without the signature header was
\* refused
C10_Witness ==
    /\ checked.done
    /\ checked.signature = <<>>
    /\ webhookEnv = ""
    /\ ~checked.ok

\* ---------------------------------------------------------- claims C11..C15

\* the header is the digest of the body under the secret in force, bare or
\* behind one "sha256="
SignatureMatches(signature, body) ==
    \/ signature = <<ExpectedDigest(body)>>
    \/ signature = <<Lit("sha256="), ExpectedDigest(body)>>

\* what ReceiveWebhook did with a request, once it was reached by a POST
ReceiveChecked(r) ==
    LET rr == r.recv
        ok == SignatureMatches(r.req.signature, r.req.body)
    IN  /\ rr.read <=> r.req.readOK
        /\ rr.verified <=> (rr.read /\ ok)
        /\ rr.parsed => rr.verified
        /\ rr.handed => (rr.verified /\ rr.parsed)
        /\ (rr.p.rows # <<>> \/ rr.p.spawned) => rr.handed
        /\ ~rr.read => /\ rr.response = WebhookResponse(400, FALSE,
                                                        "Failed to read request body", <<>>)
                       /\ r.status = 400
                       /\ ~rr.parsed
                       /\ ~rr.handed
                       /\ rr.p.rows = <<>>
                       /\ ~rr.p.spawned
        /\ (rr.read /\ ~ok) => /\ rr.response.status = 401
                                /\ r.status = 401
                                /\ ~rr.parsed
                                /\ ~rr.handed
                                /\ rr.p.rows = <<>>
                                /\ ~rr.p.spawned
        /\ (rr.read /\ ok) => /\ rr.parsed
                               /\ rr.handed <=> (r.req.body = <<123, 125>>)

\* the rows of chat_storage that record an inbound message
InboundRows == SelectSeq(storage, LAMBDA row : "received" \in DOMAIN row.message_data)

\* the calls in flight that have stored their row and not yet started their
\* fan-out
StoredNotSpawned == {k \in 1..Len(inbound) : inbound[k].stage = "stored"}

\* C11 as stated: every POST to the receive endpoint whose
\* X-Hub-Signature-256 is missing or does not match its body is answered 401.
C11_UnsignedAnswered401 ==
    (hlast.done /\ hlast.kind = "receive" /\ hlast.r.endpoint = "receive"
        /\ hlast.r.req.method = "POST"
        /\ ~SignatureMatches(hlast.r.req.signature, hlast.r.req.body)) =>
        hlast.response.status = 401

\* C11: ReceiveWebhook verifies the signature over the body as read before
\* anything else is done with the body: when the body has been read, a
\* missing or mismatched X-Hub-Signature-256 is answered 401 and the body is
\* not parsed, no row is stored and no fan-out is started; a body that
\* cannot be read is answered 400 before the signature is looked at, and
\* nothing is parsed, stored or fanned out either; only a body with a valid
\* signature is parsed and handed to processIncomingMessage. Every call in
\* flight belongs to a request whose signature verified, and chat_storage
\* holds one row of an inbound message for every such call that got past
\* its insert, whatever rows the send functions have stored besides.
C11_VerifyBeforeUse ==
    /\ (hlast.done /\ hlast.kind = "receive"
            /\ hlast.r.endpoint = "receive" /\ hlast.r.req.method = "POST") =>
          ReceiveChecked(hlast.r)
    /\ \A k \in 1..Len(inbound) :
          (ReceiveChecked(inbound[k].r) /\ inbound[k].r.recv.verified)
    /\ Len(InboundRows) = Len(tasks) + Cardinality(StoredNotSpawned)
    /\ (hlast.done /\ hlast.kind = "receive" /\ hlast.response.status = 401) =>
          hlast.fan = NoTask

\* a JSON object signed by a sender with another key was answered 401, and
\* nothing has been fanned out; the only row in the table is one a public
\* send function stored
C11_Witness ==
    /\ hlast.done
    /\ hlast.kind = "receive"
    /\ hlast.r.req.body = <<123, 125>>
    /\ hlast.r.req.signature = <<Lit("sha256=")>> \o hexHMACSHA256(ForeignKey, <<123, 125>>)
    /\ hlast.response.status = 401
    /\ storage # <<>>
    /\ InboundRows = <<>>
    /\ tasks = <<>>

Dispatched ==
    /\ hlast.done
    /\ \/ hlast.kind = "fanout"
       \/ hlast.kind = "send" /\ hlast.r.send.dispatched

\* C12: in every outbound delivery the X-Hub-Signature-256 header is
\* "sha256=" and the digest of exactly the bytes sent as the body, which are
\* the serialized event; verifyWebhookSignature run with the same secret on
\* the header and body of the delivery accepts it.
C12_SignedBytesAreSentBytes ==
    Dispatched =>
        \A i \in 1..Len(hlast.dispatch.calls) :
            LET call == hlast.dispatch.calls[i]
            IN  call.made =>
                  /\ call.body = Marshal(hlast.event)
                  /\ call.header = <<Lit("sha256="), ExpectedDigest(call.body)>>
                  /\ verifyWebhookSignature(call.header, call.body, webhookEnv)

\* a fan-out delivered an event whose "to" and "user" are empty, and so
\* left out of the body, to three destinations
C12_Witness ==
    /\ Dispatched
    /\ hlast.kind = "fanout"
    /\ hlast.event.To = ""
    /\ Len(hlast.dispatch.calls) = 3
    /\ \A i \in 1..3 : hlast.dispatch.calls[i].made

Is2xx(outcome) == outcome.kind = "status" /\ outcome.code >= 200 /\ outcome.code < 300

\* C13: a dispatch over n >= 1 destinations returns n results, the i-th for
\* the i-th configured destination; a result is successful exactly when the
\* request went out and the destination answered with a 2xx status; what one
\* destination does changes neither the attempt at nor the result of another.
C13_OneResultPerDestination ==
    (Dispatched /\ Len(Destinations) >= 1) =>
        LET d == hlast.dispatch
            n == Len(Destinations)
        IN  /\ d.err = ""
            /\ Len(d.results) = n
            /\ Len(d.calls) = n
            /\ \A i \in 1..n :
                  /\ d.results[i].url = Destinations[i]
                  /\ d.calls[i].made <=> ParsesAsURL(Destinations[i])
                  /\ d.calls[i].made => d.calls[i].url = Destinations[i]
                  /\ d.results[i].success <=> (d.calls[i].made /\ Is2xx(hlast.outs[i]))
                  /\ d.results[i] =
                        sendSingleWebhook(Destinations[i], hlast.event, webhookEnv,
                                          d.results[i].timestamp, hlast.outs[i]).result
            /\ webhookURLsEnv = <<Blank, "u1", Comma, Comma, "u2", Blank, Comma, "u3">> =>
                  Destinations = << <<"u1">>, <<"u2">>, <<"u3">> >>
            /\ hlast.kind = "send" =>
                  (hlast.r.status = 200 /\ hlast.r.send.webhook_urls = n)

\* of three destinations the first answered a non-2xx status: three
\* results, only the first unsuccessful, the other two contacted
C13_Witness ==
    /\ Dispatched
    /\ Len(hlast.dispatch.results) = 3
    /\ ~hlast.dispatch.results[1].success
    /\ hlast.dispatch.results[1].status_code = 300
    /\ hlast.dispatch.results[2].success
    /\ hlast.dispatch.results[3].success
    /\ hlast.dispatch.calls[2].made
    /\ hlast.dispatch.calls[3].made

\* WHATSAPP_WEBHOOK names no destination: it is unset or holds only blanks
\* and commas
NoDestinationConfigured ==
    \A i \in 1..Len(webhookURLsEnv) : webhookURLsEnv[i] \in {Blank, Comma}

\* C14: with no destination configured (WHATSAPP_WEBHOOK unset, or only
\* blank items) a dispatch fails with the no-destinations error, returns no
\* result and makes no HTTP call, and the send endpoint answers 500, not
\* success; with a destination configured the dispatch does not fail.
C14_NoDestinations ==
    Dispatched =>
        /\ NoDestinationConfigured =>
              /\ hlast.dispatch.err = NoDestinations
              /\ hlast.dispatch.results = <<>>
              /\ hlast.dispatch.calls = <<>>
              /\ hlast.kind = "send" =>
                    /\ hlast.r.status = 500
                    /\ ~hlast.r.send.success
                    /\ hlast.r.send.error = "Failed to send webhooks"
        /\ ~NoDestinationConfigured => hlast.dispatch.err = ""

\* with WHATSAPP_WEBHOOK holding only blanks and commas, an authenticated
\* POST to send was answered 500
C14_Witness ==
    /\ Dispatched
    /\ hlast.kind = "send"
    /\ webhookURLsEnv = <<Blank, Comma, Blank>>
    /\ hlast.r.auth.next = 1
    /\ hlast.r.status = 500

\* C15: the response to an inbound webhook whose message was processed is
\* 200 with the event id, whatever the fan-out it started has done by then
\* (not run yet, delivered, failed at destinations, found no destination);
\* the handler can always answer without the fan-out having run.
C15_FanoutDetached ==
    /\ (hlast.done /\ hlast.kind = "receive" /\ hlast.r.recv.p.spawned) =>
          /\ hlast.response =
                WebhookResponse(200, TRUE, "Message processed successfully",
                                generateMessageID(hlast.r.at))
          /\ hlast.fan.state \in {"spawned", "done"}
    /\ \A k \in 1..Len(inbound) :
          inbound[k].stage = "processed" => ENABLED ReceiveRespond(k)

\* the fan-out had already failed for want of destinations when the inbound
\* request was answered 200
C15_Witness ==
    /\ hlast.done
    /\ hlast.kind = "receive"
    /\ hlast.fan.state = "done"
    /\ hlast.fan.err = NoDestinations
    /\ hlast.response.status = 200
    /\ hlast.response.success

\* ---------------------------------------------------------- claims C16..C20

\* the request served last reached the handler of endpoint e
Served(e) == aresp.done /\ aresp.r.endpoint = e

\* the role the fixed mapping gives a username
RoleOf(username) == IF username = "admin" THEN "admin" ELSE "user"

\* g is a token pair issued at instant t for username, with the mapped role
FreshPair(g, username, t) ==
    /\ g.username = username
    /\ g.claims.Username = username
    /\ g.refreshClaims.Username = username
    /\ g.claims.Role = RoleOf(username)
    /\ g.refreshClaims.Role = RoleOf(username)
    /\ g.accessToken[2].username = username
    /\ g.accessToken[2].role = RoleOf(username)
    /\ g.refreshToken[2].username = username
    /\ g.refreshToken[2].role = RoleOf(username)
    /\ g.claims.IssuedAt = t
    /\ g.claims.ExpiresAt = t + AccessTTL
    /\ g.refreshClaims.IssuedAt = t
    /\ g.refreshClaims.ExpiresAt = t + RefreshTTL
    /\ SignedBySecret(g.accessToken)
    /\ SignedBySecret(g.refreshToken)

\* the request served last issued nothing
NothingIssued ==
    /\ aresp.r.resp.issued = {}
    /\ aresp.r.resp.token = <<>>
    /\ aresp.r.resp.refresh_token = <<>>
    /\ issued = aresp.before

\* C16: a POST to refresh with a decodable body succeeds exactly when
\* validate accepts the token sent (its signature verifies under the secret
\* and not-before <= now < expires-at; nothing else is looked at, not even
\* whether it was issued as a refresh token); on success the response
\* carries a pair issued at that instant for the username in the token, with
\* the role the fixed mapping gives that username; on failure the answer is
\* 401 and nothing is issued.
C16_RefreshIff ==
    (Served("refresh") /\ aresp.r.req.method = "POST" /\ aresp.r.req.decoded.ok) =>
        LET tok == aresp.r.req.decoded.refresh_token
            at == aresp.r.at
            ok == SignedBySecret(tok) /\ InValidity(tok, at)
        IN  /\ (aresp.r.status = 200) <=> ok
            /\ ok <=> validateJWTToken(tok, at, jwtSecret).ok
            /\ ok => /\ \E g \in aresp.r.resp.issued :
                            /\ aresp.r.resp.issued = {g}
                            /\ g \notin aresp.before
                            /\ issued = aresp.before \cup {g}
                            /\ FreshPair(g, tok[2].username, at)
                            /\ aresp.r.resp.token = g.accessToken
                            /\ aresp.r.resp.refresh_token = g.refreshToken
                            /\ aresp.r.resp.expires_in = AccessTTL
                     /\ aresp.r.resp.success
            /\ ~ok => /\ aresp.r.status = 401
                      /\ ~aresp.r.resp.success
                      /\ NothingIssued

\* an hour after the login, when the access token has expired, the refresh
\* token issued with it was accepted and a pair for alice came back
C16_Witness ==
    /\ Served("refresh")
    /\ aresp.r.status = 200
    /\ aresp.r.at = AccessTTL
    /\ \E i \in aresp.before : aresp.r.req.decoded.refresh_token = i.refreshToken
    /\ \E g \in aresp.r.resp.issued : g.username = "alice"

\* C17: validity is stateless: a token that RefreshToken has accepted
\* before is accepted by validate, and again by RefreshToken, at every
\* instant before its own expires-at, whatever requests were served in
\* between; the outcome of a refresh or validate request is the same whether
\* or not its token was used for a refresh before.
C17_StatelessValidity ==
    /\ \A tok \in refreshed :
          /\ validateRefreshToken(tok, now, jwtSecret).ok <=> InValidity(tok, now)
          /\ validateJWTToken(tok, now, jwtSecret).ok <=> InValidity(tok, now)
    /\ (Served("refresh") /\ aresp.r.req.method = "POST"
            /\ aresp.r.req.decoded.ok /\ aresp.used) =>
          ((aresp.r.status = 200) <=>
              InValidity(aresp.r.req.decoded.refresh_token, aresp.r.at))
    /\ (Served("validate") /\ aresp.r.req.method = "GET"
            /\ aresp.r.req.header.scheme = "Bearer ") =>
          LET tok == aresp.r.req.header.tok
          IN  (aresp.r.status = 200) <=>
                  (SignedBySecret(tok) /\ InValidity(tok, aresp.r.at))

\* a refresh token issued by the service and already used for one refresh
\* was accepted for a second refresh
C17_Witness ==
    /\ Served("refresh")
    /\ aresp.used
    /\ aresp.r.status = 200
    /\ \E i \in aresp.before : aresp.r.req.decoded.refresh_token = i.refreshToken
    /\ Cardinality(issued) = 3

\* C18: in every token issued, access and refresh, by Login and by
\* RefreshToken, the role is admin when the username is "admin" and user for
\* every other username; the user object of a Login response carries the
\* same role.
C18_RoleFromUsername ==
    /\ \A g \in issued :
          /\ g.claims.Role = RoleOf(g.claims.Username)
          /\ g.refreshClaims.Role = RoleOf(g.refreshClaims.Username)
          /\ g.accessToken[2].role = RoleOf(g.accessToken[2].username)
          /\ g.refreshToken[2].role = RoleOf(g.refreshToken[2].username)
          /\ g.claims.Username = g.username
          /\ g.refreshClaims.Username = g.username
    /\ (Served("login") /\ aresp.r.status = 200) =>
          aresp.r.resp.user.Role = RoleOf(aresp.r.req.decoded.username)
    /\ (Served("refresh") /\ aresp.r.status = 200) =>
          \A g \in aresp.r.resp.issued :
              g.claims.Role = RoleOf(aresp.r.req.decoded.refresh_token[2].username)

\* "admin" and "Admin" have both logged in: the first holds the admin role,
\* the second, like alice, the user role
C18_Witness ==
    /\ \E g \in issued : g.username = "admin" /\ g.accessToken[2].role = "admin"
    /\ \E g \in issued : g.username = "Admin" /\ g.accessToken[2].role = "user"
    /\ \E g \in issued : g.username = "alice" /\ g.refreshToken[2].role = "user"

\* C19: every authentication failure at a protected endpoint (no
\* Authorization header, no Bearer prefix, malformed, expired or wrongly
\* signed token) gets the same response: the 401 just written by the
\* authentication guard has the body that every other failing header would
\* get at this instant.
C19_UniformRejection ==
    (last.done /\ last.r.auth.ran /\ last.r.auth.wrote = <<401>>) =>
        \A h \in Headers :
            LET a == AuthMiddleware(h, now, jwtSecret)
            IN  a.wrote = <<401>> => a.body = last.r.auth.body

\* the username:password pairs each value of APP_BASIC_AUTH configures
ConfiguredPairs ==
    IF basicAuthEnv = <<>> THEN {<<"admin", "whatsapp2024">>}
    ELSE IF Head(basicAuthEnv) = "alice" /\ basicAuthEnv[4] = Comma
    THEN {<<"alice", "pw1">>, <<"admin", "pw2">>, <<"carol ", "pw3">>}
    ELSE {<<"Admin", "pw3">>, <<"admin", "pw2">>}

\* C20: Login returns a token pair only for a submitted (username,
\* password) that is one of the configured pairs (the pair admin /
\* whatsapp2024 when APP_BASIC_AUTH is unset); an empty username or password
\* is answered 400 and any other pair 401, and then no token is issued; a
\* configured pair is answered 200 with a pair issued for that username.
C20_LoginOnlyConfigured ==
    Served("login") =>
        LET d == aresp.r.req.decoded
            posted == aresp.r.req.method = "POST" /\ d.ok
            configured == <<d.username, d.password>> \in ConfiguredPairs
        IN  /\ aresp.r.status = 200 => (posted /\ configured)
            /\ aresp.r.status # 200 => NothingIssued
            /\ (posted /\ (d.username = "" \/ d.password = "")) => aresp.r.status = 400
            /\ (posted /\ d.username # "" /\ d.password # "" /\ ~configured) =>
                  aresp.r.status = 401
            /\ (posted /\ configured) =>
                  /\ aresp.r.status = 200
                  /\ \E g \in aresp.r.resp.issued :
                        /\ aresp.r.resp.issued = {g}
                        /\ issued = aresp.before \cup {g}
                        /\ FreshPair(g, d.username, aresp.r.at)
                        /\ aresp.r.resp.token = g.accessToken
                        /\ aresp.r.resp.refresh_token = g.refreshToken

\* alice's name with admin's password, both configured, was answered 401
\* and nothing was issued
C20_Witness ==
    /\ Served("login")
    /\ aresp.r.req.decoded.username = "alice"
    /\ aresp.r.req.decoded.password = "pw2"
    /\ <<"admin", "pw2">> \in ConfiguredPairs
    /\ <<"alice", "pw1">> \in ConfiguredPairs
    /\ aresp.r.status = 401
    /\ issued = aresp.before

\* ---------------------------------------------------------- claims C21..C24

\* the timestamps of a list that lie inside the window that ends at t
InWindow(list, t, w) == SelectSeq(list, LAMBDA ts : ts > t - w)

\* the lists of the identifier of the last call, before and after it
CallBefore == Entry(lcall.before[lcall.l], lcall.id)
CallAfter == Entry(lcall.after[lcall.l], lcall.id)

\* C21 as stated: at every point every stored timestamp lies within
\* [now - window, now].
C21_AlwaysInWindow ==
    \A l \in Limiters : \A id \in DOMAIN requests[l] :
        \A i \in 1..Len(requests[l][id]) :
            /\ now - window[l] <= requests[l][id][i]
            /\ requests[l][id][i] <= now

\* C21, amended: when a check for an identifier returns, at instant t, its
\* stored list holds only timestamps in (t - window, t], whatever the list
\* held before: the check removed every timestamp that had left the window.
\* Between checks no stored timestamp is later than now, but a list keeps
\* timestamps that have left the window until the next check for its
\* identifier.
C21_InWindowAfterCheck ==
    /\ \A l \in Limiters : \A id \in DOMAIN requests[l] :
          \A i \in 1..Len(requests[l][id]) : requests[l][id][i] <= now
    /\ lcall.done =>
          /\ \A i \in 1..Len(CallAfter) :
                /\ CallAfter[i] > lcall.t - window[lcall.l]
                /\ CallAfter[i] <= lcall.t
          /\ \A i \in 1..Len(CallBefore) :
                CallBefore[i] <= lcall.t - window[lcall.l] =>
                    \A j \in 1..Len(CallAfter) : CallAfter[j] # CallBefore[i]

\* a check found a timestamp that had left the window in the list and
\* removed it
C21_Witness ==
    /\ lcall.done
    /\ CallBefore # <<>>
    /\ CallBefore[1] <= lcall.t - window[lcall.l]
    /\ CallAfter = <<lcall.t>>

\* C22: an Allow call for an identifier on one limiter changes only that
\* identifier's entry of that limiter; its result is a function of that
\* entry, the limiter's own limit and window, and the clock; nothing else
\* changes the maps, and no entry, once created, disappears.
C22_Partitioned ==
    /\ ~lcall.done => requests = [l \in Limiters |-> EmptyMap]
    /\ lcall.done =>
          /\ requests = lcall.after
          /\ lcall.id \in DOMAIN lcall.after[lcall.l]
          /\ \A l \in Limiters :
                /\ DOMAIN lcall.before[l] \subseteq DOMAIN lcall.after[l]
                /\ \A id \in Identifiers :
                      <<l, id>> # <<lcall.l, lcall.id>> =>
                          /\ id \in DOMAIN lcall.after[l] <=> id \in DOMAIN lcall.before[l]
                          /\ Entry(lcall.after[l], id) = Entry(lcall.before[l], id)
          /\ lcall.ok <=>
                Len(InWindow(CallBefore, lcall.t, window[lcall.l])) < limit[lcall.l]

\* the authentication limiter rejected an identifier that the general
\* limiter, with room left, knows too, while another identifier has an
\* entry of its own
C22_Witness ==
    /\ lcall.done
    /\ lcall.l = "auth"
    /\ ~lcall.ok
    /\ lcall.id \in DOMAIN requests["global"]
    /\ Len(requests["global"][lcall.id]) < limit["global"]
    /\ \E id \in DOMAIN requests["auth"] : id # lcall.id /\ requests["auth"][id] # <<>>

\* C23: a rejected Allow call stores the pruned list and nothing else, so
\* the current instant is not recorded and the list is as an admitted call
\* at that instant would have found it; an admitted call stores the pruned
\* list followed by the current instant, once. A call is rejected exactly
\* when the pruned list has limit entries or more.
C23_RejectRecordsNothing ==
    lcall.done =>
        LET pruned == InWindow(CallBefore, lcall.t, window[lcall.l])
        IN  /\ ~lcall.ok <=> Len(pruned) >= limit[lcall.l]
            /\ ~lcall.ok => CallAfter = pruned
            /\ lcall.ok => CallAfter = Append(pruned, lcall.t)
            /\ Len(CallAfter) <= limit[lcall.l]

\* a call made after the quota was used up, at a later instant inside the
\* window, was rejected and left the list as it was
C23_Witness ==
    /\ lcall.done
    /\ ~lcall.ok
    /\ CallBefore # <<>>
    /\ CallAfter = CallBefore
    /\ \A i \in 1..Len(CallAfter) : CallAfter[i] < lcall.t

\* the last call was made for identifier id on limiter l
LastCall(l, id) == lcall.done /\ lcall.l = l /\ lcall.id = id

\* a call made at least window after the oldest timestamp its identifier's
\* list held is admitted
AdmittedAfterWindow ==
    (/\ lcall.done
     /\ CallBefore # <<>>
     /\ lcall.t >= CallBefore[1] + window[lcall.l]) => lcall.ok

\* C24: with a limit of at least one no identifier is locked out for good.
\* Every call made at least window after the oldest timestamp of the
\* identifier's list is admitted, whatever calls were rejected in between;
\* and a caller that was rejected, and keeps calling while time passes, is
\* admitted later. (The clock of the model stops at MaxTicks, so the second
\* part is stated for rejections after which a whole window still passes.)
C24_NoPermanentLockout ==
    /\ [](\A l \in Limiters : limit[l] >= 1)
    /\ []AdmittedAfterWindow
    /\ \A l \in Limiters, id \in Callers :
          (LastCall(l, id) /\ ~lcall.ok /\ lcall.t + window[l] <= MaxTicks)
              ~> (LastCall(l, id) /\ lcall.ok)

\* a call was admitted on a list that was full: its oldest timestamp had
\* left the window, a rejected call had been made in between (the list
\* still held the stale timestamp first, which an admitted call would have
\* removed only together with adding its own)
C24_Witness ==
    /\ lcall.done
    /\ lcall.ok
    /\ Len(CallBefore) = limit[lcall.l]
    /\ lcall.t >= CallBefore[1] + window[lcall.l]
    /\ window[lcall.l] > 1

\* ---------------------------------------------------------- claims C25..C30

\* the instants, inside the 15 minutes that end now, at which a request
\* of the caller was admitted to the auth endpoints
AdmittedToAuth ==
    SelectSeq(Entry(requests["global"], AuthSource.remote[1]),
              LAMBDA ts : ts > now - AuthWindow)

\* C25: requests to the authentication endpoints are throttled by the
\* authentication limiter: of the requests one caller sends, at most 5 are
\* admitted to the endpoints within any 15 minutes.
C25_AuthEndpointsThrottled == Len(AdmittedToAuth) <= AuthLimit

\* the manage-webhooks handler ran for the last request
Managed == hlast.done /\ hlast.kind = "manage" /\ hlast.r.manage.status # 0

\* C26: webhook management is admin only: the manage-webhooks handler
\* runs only for requests whose validated token carries role admin.
C26_ManageAdminOnly == Managed => hlast.r.auth.ctx.claims.Role = "admin"

\* the event SendWebhook dispatched for the last request
SentEvent == hlast.r.send.event

\* C27: the event the send endpoint dispatches carries the username of
\* the validated token as actor and the instant of the request as
\* timestamp, whatever the body supplied for the two fields; the other
\* fields are the body's.
C27_ServerSetsActorAndTime ==
    (hlast.done /\ hlast.kind = "send" /\ hlast.r.send.dispatched) =>
        /\ hlast.r.auth.ctx.hasClaims
        /\ SentEvent.User = hlast.r.auth.ctx.claims.Username
        /\ SentEvent.Timestamp = hlast.r.at
        /\ [SentEvent EXCEPT !.User = "", !.Timestamp = 0]
              = [hlast.r.req.decoded.event EXCEPT !.User = "", !.Timestamp = 0]
        /\ \A i \in 1..Len(hlast.dispatch.calls) :
              hlast.dispatch.calls[i].made =>
                  hlast.dispatch.calls[i].body = Marshal(SentEvent)

\* a body that names another actor and another time was dispatched to a
\* destination under the token's username and the server's time
C27_Witness ==
    /\ hlast.done
    /\ hlast.kind = "send"
    /\ hlast.r.send.dispatched
    /\ hlast.dispatch.calls # <<>>
    /\ hlast.r.req.decoded.event.User = "mallory"
    /\ hlast.r.req.decoded.event.Timestamp # hlast.r.at
    /\ SentEvent.User = "alice"

\* C28: the rate-limit identifier of a request is its remote address,
\* whatever X-Forwarded-For and X-Real-IP headers it carries, so that two
\* requests from one remote address are counted against one identifier.
C28_KeyedByRemoteAddress ==
    (last.done /\ last.r.ratelimit.ran) => last.r.key = last.r.src.remote[1]

\* the bearer guard lets a request with token tok pass at instant t
GuardAccepts(tok, t) == AuthMiddleware(Header("Bearer ", tok), t, jwtSecret).next = 1

\* the validate endpoint accepts tok at instant t
ValidateAccepts(tok, t) ==
    ValidateToken("GET", Header("Bearer ", tok), t, jwtSecret).status = 200

\* the refresh endpoint accepts tok at instant t, no credentials given
RefreshAccepts(tok, t) ==
    RefreshToken("POST", Body(TRUE, "", "", tok), t, mono, jwtSecret).status = 200

\* C29: the kind of a token is distinguished nowhere. Every token the
\* validate endpoint accepts, issued by the service or sent in a request, is
\* accepted by the bearer guard and by refresh, and none else; a refresh token opens the guarded endpoints until its own
\* expiry, seven days after its issue; an access token is exchanged for a
\* new pair; and each token of a pair that a refresh returned is accepted by
\* validate, by the guard and by refresh in turn, the request carrying no
\* credentials.
C29_KindNotDistinguished ==
    /\ \A tok \in IssuedTokens :
          /\ ValidateAccepts(tok, now) <=> GuardAccepts(tok, now)
          /\ ValidateAccepts(tok, now) <=> RefreshAccepts(tok, now)
    /\ (Served("validate") /\ aresp.r.req.method = "GET"
            /\ aresp.r.req.header.scheme = "Bearer ") =>
          LET tok == aresp.r.req.header.tok
              at == aresp.r.at
          IN  /\ (aresp.r.status = 200) <=> GuardAccepts(tok, at)
              /\ (aresp.r.status = 200) <=> RefreshAccepts(tok, at)
    /\ \A i \in issued :
          /\ InValidity(i.refreshToken, now) => GuardAccepts(i.refreshToken, now)
          /\ InValidity(i.accessToken, now) => RefreshAccepts(i.accessToken, now)
          /\ i.refreshClaims.ExpiresAt = i.refreshClaims.IssuedAt + RefreshTTL
    /\ (Served("refresh") /\ aresp.r.req.method = "POST" /\ aresp.r.req.decoded.ok) =>
          LET tok == aresp.r.req.decoded.refresh_token
              at == aresp.r.at
          IN  /\ (aresp.r.status = 200) <=> ValidateAccepts(tok, at)
              /\ (aresp.r.status = 200) <=> GuardAccepts(tok, at)
              /\ aresp.r.status = 200 =>
                    /\ aresp.r.req.decoded.username = ""
                    /\ aresp.r.req.decoded.password = ""
                    /\ \A g \in aresp.r.resp.issued :
                          \A t \in {g.accessToken, g.refreshToken} :
                              /\ ValidateAccepts(t, at)
                              /\ GuardAccepts(t, at)
                              /\ RefreshAccepts(t, at)

\* alice, for whom no password is configured, exchanged her access token
\* for a new pair; an hour later, her first access token expired, the
\* refresh token of that pair was accepted for a further pair, while her
\* first refresh token still passes the bearer guard
C29_Witness ==
    /\ basicAuthEnv = <<>>
    /\ Served("refresh")
    /\ aresp.r.status = 200
    /\ aresp.r.at = AccessTTL
    /\ \E j \in aresp.before, i \in aresp.before :
          /\ j.username = "alice"
          /\ j.accessToken \in refreshed
          /\ ~InValidity(j.accessToken, now)
          /\ GuardAccepts(j.refreshToken, now)
          /\ i.username = "alice"
          /\ i # j
          /\ aresp.r.req.decoded.refresh_token = i.refreshToken

\* C30: the subject id of a user is stable: the user id in the body of a
\* login response, the user_id of the access token and the user_id of the
\* refresh token issued with it are equal, and the tokens a refresh issues
\* carry the user_id of the token presented.
C30_StableUserID ==
    /\ (Served("login") /\ aresp.r.status = 200) =>
          \A g \in aresp.r.resp.issued :
              /\ aresp.r.resp.user.ID = g.claims.UserID
              /\ g.claims.UserID = g.refreshClaims.UserID
    /\ (Served("refresh") /\ aresp.r.status = 200) =>
          \A g \in aresp.r.resp.issued :
              /\ g.claims.UserID = aresp.r.req.decoded.refresh_token[2].user_id
              /\ g.refreshClaims.UserID = g.claims.UserID

====
